---- MODULE Spec2Model ----
(***************************************************************************)
(* Quadrotor Control Lab: the orchestrator (app.js), the plant             *)
(* (physics.js), the controller suite (controllers.js), the reference      *)
(* generator (trajectories.js), the data logger and the keyboard module,   *)
(* as one state machine.                                                   *)
(*                                                                         *)
(* Numbers.  A JavaScript number is modelled as a fixed-point integer in   *)
(* units of 1/SCALE, with the three non-finite IEEE-754 values kept as     *)
(* values of their own: a result whose magnitude exceeds FMax is +-Inf,    *)
(* Inf - Inf, 0 * Inf, 0 / 0 and sin/cos(+-Inf) are NaN, NaN propagates    *)
(* through arithmetic and through Math.min / Math.max, and every           *)
(* comparison with NaN is false.  Time is counted in physics substeps of   *)
(* DT = 1/DT_HZ seconds.                                                   *)
(***************************************************************************)
EXTENDS Integers, Sequences, FiniteSets, TLC

\* ------------------------------------------------------------------------
\*  Number model
\* ------------------------------------------------------------------------
SCALE == 1000
FMax  == 20000000
PINF  == 2000000000
NINF  == -2000000000
NAN   == 2100000000

IsNaN(a) == a = NAN
IsInf(a) == a = PINF \/ a = NINF
IsFin(a) == a > NINF /\ a < PINF

Abs(a) == IF a < 0 THEN -a ELSE a
Sgn(a) == IF a > 0 THEN 1 ELSE IF a < 0 THEN -1 ELSE 0

\* integer division rounded to the nearest integer, n > 0
RDiv(a, n) == IF a >= 0 THEN (2 * a + n) \div (2 * n) ELSE -((2 * (-a) + n) \div (2 * n))

\* a finite result outside the representable range becomes an infinity
Norm(v) == IF v > FMax THEN PINF ELSE IF v < -FMax THEN NINF ELSE v

Neg(a) == IF a = NAN THEN NAN ELSE -a

\* a + b without range normalisation (used where the unit is not 1/SCALE)
AddX(a, b) ==
    IF a = NAN \/ b = NAN THEN NAN
    ELSE IF a = PINF THEN (IF b = NINF THEN NAN ELSE PINF)
    ELSE IF a = NINF THEN (IF b = PINF THEN NAN ELSE NINF)
    ELSE IF IsInf(b) THEN b
    ELSE a + b

Add(a, b) == LET r == AddX(a, b) IN IF IsFin(r) THEN Norm(r) ELSE r
Sub(a, b) == Add(a, Neg(b))

\* |a| * |b| / SCALE for finite operands, computed without leaving 32 bits
MulMag(A, B) ==
    LET ah == A \div SCALE
        al == A % SCALE
        bh == B \div SCALE
        bl == B % SCALE
    IN  IF ah * bh > (FMax \div SCALE) + 1 THEN FMax + 1
        ELSE ah * bh * SCALE + ah * bl + al * bh + (al * bl + SCALE \div 2) \div SCALE

Mul(a, b) ==
    IF a = NAN \/ b = NAN THEN NAN
    ELSE IF IsInf(a) \/ IsInf(b)
         THEN (IF a = 0 \/ b = 0 THEN NAN
               ELSE IF Sgn(a) * Sgn(b) > 0 THEN PINF ELSE NINF)
    ELSE Norm(Sgn(a) * Sgn(b) * MulMag(Abs(a), Abs(b)))

\* a / b
Div(a, b) ==
    IF a = NAN \/ b = NAN THEN NAN
    ELSE IF IsInf(a) THEN (IF IsInf(b) THEN NAN
                           ELSE IF (b >= 0) = (a = PINF) THEN PINF ELSE NINF)
    ELSE IF IsInf(b) THEN 0
    ELSE IF b = 0 THEN (IF a = 0 THEN NAN ELSE IF a > 0 THEN PINF ELSE NINF)
    ELSE LET A == Abs(a)
             B == Abs(b)
             q == IF A \div B > (FMax \div SCALE) + 1 THEN FMax + 1
                  ELSE IF B <= 2000000
                       THEN (A \div B) * SCALE + RDiv((A % B) * SCALE, B)
                       ELSE (A \div B) * SCALE + (A % B) \div (B \div SCALE)
         IN  Norm(Sgn(a) * Sgn(b) * q)

\* a * n and a / n for an exact integer n > 0
MulI(a, n) ==
    IF ~IsFin(a) THEN a
    ELSE IF Abs(a) > (FMax \div n) + 1 THEN (IF a > 0 THEN PINF ELSE NINF)
    ELSE Norm(a * n)

DivI(a, n) == IF ~IsFin(a) THEN a ELSE RDiv(a, n)

\* a * num / den for an exact rational num / den > 0
MulQ(a, num, den) ==
    IF num = 0 THEN (IF IsFin(a) THEN 0 ELSE NAN)
    ELSE IF ~IsFin(a) THEN a
    ELSE LET A == Abs(a)
             q == IF (A \div den) > (FMax \div num) + 1 THEN FMax + 1
                  ELSE (A \div den) * num + RDiv((A % den) * num, den)
         IN  Norm(Sgn(a) * q)

\* a * num / den where the result is in another unit and known to fit
MulQX(a, num, den) ==
    IF ~IsFin(a) THEN a
    ELSE LET A == Abs(a)
         IN  Sgn(a) * ((A \div den) * num + RDiv((A % den) * num, den))

\* comparisons: false whenever an operand is NaN
Lt(a, b) == a # NAN /\ b # NAN /\ a < b
Le(a, b) == a # NAN /\ b # NAN /\ a <= b
Gt(a, b) == Lt(b, a)
Ge(a, b) == Le(b, a)
Eq(a, b) == a # NAN /\ b # NAN /\ a = b

\* Math.min / Math.max: NaN if either argument is NaN
MathMin(a, b) == IF a = NAN \/ b = NAN THEN NAN ELSE IF a < b THEN a ELSE b
MathMax(a, b) == IF a = NAN \/ b = NAN THEN NAN ELSE IF a > b THEN a ELSE b
MathAbs(a) == IF a = NAN THEN NAN ELSE IF a = NINF THEN PINF ELSE Abs(a)

\* x || 0 : the falsy numbers 0 and NaN give 0
OrZero(a) == IF a = NAN THEN 0 ELSE a

\* statement sequencing: v is evaluated first, then F on its value
Let(v, F(_)) == CHOOSE r \in { F(x) : x \in {v} } : TRUE

\* ------------------------------------------------------------------------
\*  Math library (fixed point)
\* ------------------------------------------------------------------------
PI_FX      == 3142
HALF_PI_FX == 1571
TWO_PI_FX  == 6283

\* angle reduced to [-PI_FX, PI_FX)
WrapPi(x) == LET r == x % TWO_PI_FX IN IF r >= PI_FX THEN r - TWO_PI_FX ELSE r

\* an angle of [-pi, pi) folded into [-pi/2, pi/2]
FoldHalfPi(r) ==
    IF r > HALF_PI_FX THEN PI_FX - r
    ELSE IF r < -HALF_PI_FX THEN -PI_FX - r
    ELSE r

\* Taylor polynomials on [-pi/2, pi/2]
SinPoly(r) ==
    Let(Mul(r, r), LAMBDA r2 :
    Let(DivI(Mul(r, r2), 6), LAMBDA t3 :
    Let(DivI(Mul(t3, r2), 20), LAMBDA t5 :
        r - t3 + t5 - DivI(Mul(t5, r2), 42))))

CosPoly(r) ==
    Let(Mul(r, r), LAMBDA r2 :
    Let(DivI(r2, 2), LAMBDA t2 :
    Let(DivI(Mul(t2, r2), 12), LAMBDA t4 :
    Let(DivI(Mul(t4, r2), 30), LAMBDA t6 :
        SCALE - t2 + t4 - t6 + DivI(Mul(t6, r2), 56)))))

SinWrapped(r) == SinPoly(FoldHalfPi(r))

CosWrapped(r) ==
    (IF r > HALF_PI_FX \/ r < -HALF_PI_FX THEN -1 ELSE 1) * CosPoly(FoldHalfPi(r))

MathSin(x) == IF ~IsFin(x) THEN NAN ELSE SinWrapped(WrapPi(x))

MathCos(x) == IF ~IsFin(x) THEN NAN ELSE CosWrapped(WrapPi(x))

\* floor of the square root of a natural number, by bisection
RECURSIVE ISqrtB(_, _, _)
ISqrtB(n, lo, hi) ==
    IF hi - lo <= 1 THEN lo
    ELSE Let((lo + hi) \div 2, LAMBDA mid :
             IF mid * mid <= n THEN ISqrtB(n, mid, hi) ELSE ISqrtB(n, lo, mid))

ISqrt(n) == ISqrtB(n, 0, 46341)

MathSqrt(a) ==
    IF a = NAN \/ a < 0 THEN NAN
    ELSE IF a = PINF THEN PINF
    ELSE IF a <= 2000000 THEN ISqrt(a * SCALE)
    ELSE ISqrt(a * 10) * 10

\* Math.asin: NaN outside [-1, 1]
AsinPoly(v) ==
    Let(Mul(v, v), LAMBDA v2 :
    Let(Mul(v, v2), LAMBDA v3 :
    Let(Mul(v3, v2), LAMBDA v5 :
    Let(Mul(v5, v2), LAMBDA v7 :
        v + DivI(v3, 6) + MulQ(v5, 3, 40) + MulQ(v7, 15, 336)
          + MulQ(Mul(v7, v2), 105, 3456)))))

MathAsin(v) == IF ~IsFin(v) \/ v > SCALE \/ v < -SCALE THEN NAN ELSE AsinPoly(v)

AtanSmall(r) ==
    Let(Mul(r, r), LAMBDA r2 :
    Let(Mul(r, r2), LAMBDA r3 :
    Let(Mul(r3, r2), LAMBDA r5 :
        r - DivI(r3, 3) + DivI(r5, 5) - DivI(Mul(r5, r2), 7))))

\* atan on [0, 1]: atan(A) = pi/4 + atan((A - 1) / (A + 1)) above tan(pi/8)
AtanUnit(A) ==
    (IF A <= 414 THEN 0 ELSE 785)
        + AtanSmall(IF A <= 414 THEN A ELSE Div(A - SCALE, A + SCALE))

\* atan on [0, inf): atan(A) = pi/2 - atan(1 / A) above 1
AtanPos(A) ==
    IF A <= SCALE THEN AtanUnit(A)
    ELSE HALF_PI_FX - AtanUnit(Div(SCALE, A))

\* atan of a ratio q that may be infinite
AtanRatio(q) == IF IsInf(q) THEN Sgn(q) * HALF_PI_FX ELSE Sgn(q) * AtanPos(Abs(q))

\* the quadrant correction of atan2, a = atan(y / x)
Atan2Quadrant(y, x, a) ==
    IF x > 0 THEN a
    ELSE IF y >= 0 THEN a + PI_FX ELSE a - PI_FX

MathAtan2(y, x) ==
    IF y = NAN \/ x = NAN THEN NAN
    ELSE IF IsInf(y) THEN
         (IF x = PINF THEN Sgn(y) * 785
          ELSE IF x = NINF THEN Sgn(y) * 2356
          ELSE Sgn(y) * HALF_PI_FX)
    ELSE IF x = PINF THEN 0
    ELSE IF x = NINF THEN (IF y >= 0 THEN PI_FX ELSE -PI_FX)
    ELSE IF x = 0 THEN Sgn(y) * HALF_PI_FX
    ELSE Atan2Quadrant(y, x, AtanRatio(Div(y, x)))

\* ------------------------------------------------------------------------
\*  physics.js
\* ------------------------------------------------------------------------
\* DT = 1 / 120: x * dt is x / DT_HZ
DT_HZ == 120

\* PARAMS (fixed point; the inertias and motor coefficients as exact ratios)
P_m    == 500
P_g    == 9810
P_Cd   == 40
P_wMax == 2200
\* Ixx = Iyy = IxxNum / IxxDen, Izz = IzzNum / IzzDen
IxxNum == 23
IxxDen == 10000
IzzNum == 4
IzzDen == 1000
\* Izz - Iyy = 17 / 10000
DIzzIyyNum == 17

\* squared motor speeds are kept in units of W2UNIT (rad/s)^2
W2UNIT == 100

createState ==
    [x |-> 0, y |-> 0, z |-> 0, vx |-> 0, vy |-> 0, vz |-> 0,
     phi |-> 0, theta |-> 0, psi |-> 0, p |-> 0, q |-> 0, r |-> 0,
     motors |-> <<0, 0, 0, 0>>]

clamp(v, lo, hi) == MathMax(lo, MathMin(hi, v))

\* the four squared speeds a -+ b -+ c -+ d of allocateMotors
mixSq(a, b, c, d) ==
    << AddX(AddX(AddX(a, Neg(b)), Neg(c)), Neg(d)),
       AddX(AddX(AddX(a, Neg(b)), c), d),
       AddX(AddX(AddX(a, b), c), Neg(d)),
       AddX(AddX(AddX(a, b), Neg(c)), d) >>

\* allocateMotors: a = T/(4 kT), b = tauPhi*sqrt2/(4 kT L), c likewise,
\* d = tauPsi/(4 kD), with kT = 2.98e-6, L = 0.17, kD = 1.14e-7
allocSq(T, tauPhi, tauTheta, tauPsi) ==
    mixSq(MulQX(T, 1000, 1192), MulQX(tauPhi, 70711, 10132),
          MulQX(tauTheta, 70711, 10132), MulQX(tauPsi, 2500, 114))

wMaxSq == (P_wMax * P_wMax) \div W2UNIT

\* square root of a clamped squared speed, in rad/s
sqrtW(wsq) == IF wsq = NAN THEN NAN ELSE ISqrt(wsq * W2UNIT)

\* Math.sqrt(clamp(w, 0, wMax^2)) of each squared speed
clampSqrt(w) ==
    << sqrtW(clamp(w[1], 0, wMaxSq)), sqrtW(clamp(w[2], 0, wMaxSq)),
       sqrtW(clamp(w[3], 0, wMaxSq)), sqrtW(clamp(w[4], 0, wMaxSq)) >>

allocateMotors(T, tauPhi, tauTheta, tauPsi) ==
    clampSqrt(allocSq(T, tauPhi, tauTheta, tauPsi))

\* the four signed sums of squared speeds of the X-configuration mixing
\*   T: +w1 +w2 +w3 +w4, tau_phi: -w1 -w2 +w3 +w4,
\*   tau_theta: -w1 +w2 +w3 -w4, tau_psi: -w1 +w2 -w3 +w4
mixSumsRollAsPitch(q) ==
    << q[1] + q[2] + q[3] + q[4], -q[1] + q[2] + q[3] - q[4],
       -q[1] + q[2] + q[3] - q[4], -q[1] + q[2] - q[3] + q[4] >>

mixSums(q) ==
    << q[1] + q[2] + q[3] + q[4], -q[1] - q[2] + q[3] + q[4],
       -q[1] + q[2] + q[3] - q[4], -q[1] + q[2] - q[3] + q[4] >>

\* the factors kT, kT L / sqrt2 and kD (the inverses of those of allocSq)
\* applied to sums given in (rad/s)^2
mixScale(sums) ==
    << MulQX(MulQX(sums[1], 1, W2UNIT), 1192, 4 * 1000),
       MulQX(MulQX(sums[2], 1, W2UNIT), 10132 \div 2, 2 * 70711),
       MulQX(MulQX(sums[3], 1, W2UNIT), 10132 \div 2, 2 * 70711),
       MulQX(MulQX(sums[4], 1, W2UNIT), 114, 4 * 2500) >>

\* forward mixing of four motor speeds w (rad/s) into << T, tau_phi,
\* tau_theta, tau_psi >>
forwardMix(w) ==
    mixScale(mixSums(<< w[1] * w[1], w[2] * w[2], w[3] * w[3], w[4] * w[4] >>))

\* the right-hand sides of derivatives, from the six sines and cosines
derivativesOf(s, u, env, cphi, sphi, cth, sth, cpsi, spsi) ==
    LET Tx == Mul(u[1], Add(Mul(Mul(cpsi, sth), cphi), Mul(spsi, sphi)))
        Ty == Mul(u[1], Mul(cth, cphi))
        Tz == Mul(u[1], Sub(Mul(Mul(spsi, sth), cphi), Mul(cpsi, sphi)))
    IN  [dx |-> s.vx, dy |-> s.vy, dz |-> s.vz,
         dvx |-> Add(Sub(Div(Tx, P_m), Mul(P_Cd, s.vx)), OrZero(env[1])),
         dvy |-> Add(Sub(Sub(Div(Ty, P_m), P_g), Mul(P_Cd, s.vy)), OrZero(env[2])),
         dvz |-> Add(Sub(Div(Tz, P_m), Mul(P_Cd, s.vz)), OrZero(env[3])),
         dphi |-> Add(Add(s.p, Mul(Div(Mul(sphi, sth), cth), s.q)),
                      Mul(Div(Mul(cphi, sth), cth), s.r)),
         dtheta |-> Sub(Mul(cphi, s.q), Mul(sphi, s.r)),
         dpsi |-> Add(Mul(Div(sphi, cth), s.q), Mul(Div(cphi, cth), s.r)),
         dp |-> MulQ(Sub(u[2], Mul(MulQ(s.q, DIzzIyyNum, IxxDen), s.r)), IxxDen, IxxNum),
         dq |-> MulQ(Sub(u[3], Mul(Neg(MulQ(s.p, DIzzIyyNum, IxxDen)), s.r)), IxxDen, IxxNum),
         dr |-> MulQ(Sub(u[4], Mul(Mul(0, s.p), s.q)), IzzDen, IzzNum)]

derivatives(s, u, env) ==
    derivativesOf(s, u, env, MathCos(s.phi), MathSin(s.phi), MathCos(s.theta),
                  MathSin(s.theta), MathCos(s.psi), MathSin(s.psi))

\* s + k * h with h = 1 / hden
addScaled(s, k, hden) ==
    [x |-> Add(s.x, DivI(k.dx, hden)), y |-> Add(s.y, DivI(k.dy, hden)),
     z |-> Add(s.z, DivI(k.dz, hden)),
     vx |-> Add(s.vx, DivI(k.dvx, hden)), vy |-> Add(s.vy, DivI(k.dvy, hden)),
     vz |-> Add(s.vz, DivI(k.dvz, hden)),
     phi |-> Add(s.phi, DivI(k.dphi, hden)), theta |-> Add(s.theta, DivI(k.dtheta, hden)),
     psi |-> Add(s.psi, DivI(k.dpsi, hden)),
     p |-> Add(s.p, DivI(k.dp, hden)), q |-> Add(s.q, DivI(k.dq, hden)),
     r |-> Add(s.r, DivI(k.dr, hden))]

\* v + dt / 6 * (a + 2 b + 2 c + d)
rk4Sum(v, a, b, c, d) ==
    Add(v, DivI(Add(Add(Add(a, MulI(b, 2)), MulI(c, 2)), d), 6 * DT_HZ))

\* the "Combine" block of step
combine(s, k1, k2, k3, k4) ==
    [x |-> rk4Sum(s.x, k1.dx, k2.dx, k3.dx, k4.dx),
     y |-> rk4Sum(s.y, k1.dy, k2.dy, k3.dy, k4.dy),
     z |-> rk4Sum(s.z, k1.dz, k2.dz, k3.dz, k4.dz),
     vx |-> rk4Sum(s.vx, k1.dvx, k2.dvx, k3.dvx, k4.dvx),
     vy |-> rk4Sum(s.vy, k1.dvy, k2.dvy, k3.dvy, k4.dvy),
     vz |-> rk4Sum(s.vz, k1.dvz, k2.dvz, k3.dvz, k4.dvz),
     phi |-> rk4Sum(s.phi, k1.dphi, k2.dphi, k3.dphi, k4.dphi),
     theta |-> rk4Sum(s.theta, k1.dtheta, k2.dtheta, k3.dtheta, k4.dtheta),
     psi |-> rk4Sum(s.psi, k1.dpsi, k2.dpsi, k3.dpsi, k4.dpsi),
     p |-> rk4Sum(s.p, k1.dp, k2.dp, k3.dp, k4.dp),
     q |-> rk4Sum(s.q, k1.dq, k2.dq, k3.dq, k4.dq),
     r |-> rk4Sum(s.r, k1.dr, k2.dr, k3.dr, k4.dr),
     motors |-> s.motors]

\* the stage whose slope follows slope k at step h = 1 / hden
stage(s, u, env, k, hden) == derivatives(addScaled(s, k, hden), u, env)

\* the RK4 part of step, before ground contact
integrate(s, u, env) ==
    Let(derivatives(s, u, env), LAMBDA k1 :
    Let(stage(s, u, env, k1, 2 * DT_HZ), LAMBDA k2 :
    Let(stage(s, u, env, k2, 2 * DT_HZ), LAMBDA k3 :
        combine(s, k1, k2, k3, stage(s, u, env, k3, DT_HZ)))))

\* ground contact: if (s.y < 0) { s.y = 0; s.vy = Math.max(0, s.vy); }
groundContact(s) ==
    IF Lt(s.y, 0) THEN [s EXCEPT !.y = 0, !.vy = MathMax(0, s.vy)] ELSE s

step(s, u, env) ==
    [groundContact(integrate(s, u, env)) EXCEPT
        !.motors = allocateMotors(u[1], u[2], u[3], u[4])]

\* ------------------------------------------------------------------------
\*  trajectories.js: analytic patterns
\* ------------------------------------------------------------------------
\* simulation time is counted in substeps; the value of simTime in seconds
TimeFx(ticks) == RDiv(ticks * SCALE, DT_HZ)

PatternKeys == {"HOVER", "CIRCLE", "HELIX", "FIGURE8", "SQUARE", "STEP"}

Setpoint(x, y, z, vx, vy, vz, yaw) ==
    [x |-> x, y |-> y, z |-> z, vx |-> vx, vy |-> vy, vz |-> vz, yaw |-> yaw]

defaultSetpoint == Setpoint(0, 3000, 0, 0, 0, 0, 0)

\* SQUARE: corners (size, alt, size), (-size, ..), (-size, .., -size), (size, .., -size)
squareCorners == << <<4000, 3000, 4000>>, <<-4000, 3000, 4000>>,
                    <<-4000, 3000, -4000>>, <<4000, 3000, -4000>> >>

smoothstep(f) ==
    Let(Mul(f, f), LAMBDA ff :
    Let(Mul(2 * SCALE, f), LAMBDA f2 :
    Let(Sub(3 * SCALE, f2), LAMBDA g :
        Mul(ff, g))))

\* CIRCLE and HELIX: radius R, angular rate w, c = cos(w t), s = sin(w t)
orbit(R, w, y, vy, c, s) ==
    Setpoint(Mul(R, c), y, Mul(R, s), Mul(Mul(-R, w), s), vy, Mul(Mul(R, w), c), 0)

\* FIGURE8 at wt = w t, with w = 0.4, A = 5, B = 3
figure8(wt, c, s, t) ==
    Setpoint(Mul(5000, c),
             Add(3500, Mul(500, MathSin(Mul(wt, 500)))),
             DivI(Mul(3000, MathSin(Mul(2 * 400, t))), 2),
             Mul(Mul(-5000, 400), s),
             Mul(Mul(Mul(500, 500), 400), MathCos(Mul(wt, 500))),
             Mul(Mul(3000, 400), MathCos(Mul(2 * 400, t))), 0)

\* SQUARE between corners curr and next at smoothstep value sm
between(curr, next, sm) ==
    Setpoint(Add(curr[1], Mul(next[1] - curr[1], sm)),
             Add(curr[2], Mul(next[2] - curr[2], sm)),
             Add(curr[3], Mul(next[3] - curr[3], sm)), 0, 0, 0, 0)

\* SQUARE with holdTime = 3 at phase = t mod (4 holdTime)
square(phase) ==
    between(squareCorners[((phase \div 3000) % 4) + 1],
            squareCorners[(((phase \div 3000) + 1) % 4) + 1],
            smoothstep(Div(phase % 3000, 3000)))

\* patterns[key].fn(t, patterns[key].params), t in seconds (fixed point)
patternFn(key, t) ==
    CASE key = "HOVER" -> Setpoint(0, 3000, 0, 0, 0, 0, 0)
      [] key = "CIRCLE" ->
            orbit(4000, 500, 3000, 0, MathCos(Mul(500, t)), MathSin(Mul(500, t)))
      [] key = "HELIX" ->
            orbit(3000, 400, Add(SCALE, Mul(300, t)), 300,
                  MathCos(Mul(400, t)), MathSin(Mul(400, t)))
      [] key = "FIGURE8" ->
            figure8(Mul(400, t), MathCos(Mul(400, t)), MathSin(Mul(400, t)), t)
      [] key = "SQUARE" -> square(t % 12000)
      [] key = "STEP" ->
            Setpoint(0, IF t < 3000 THEN 1000 ELSE 4000, 0, 0, 0, 0, 0)

\* evaluate(patternKey, t): an unknown key gives the fixed hover setpoint
evaluate(patternKey, t) ==
    IF patternKey \notin PatternKeys THEN defaultSetpoint
    ELSE patternFn(patternKey, t)

\* the position part { x, y, z } of a setpoint
position(r) == [x |-> r.x, y |-> r.y, z |-> r.z]

\* getTrajectoryFn(patternKey)(t): the closure applied at t; for an unknown
\* key the closure returns the position (0, 3, 0) only
getTrajectoryFn(patternKey, t) ==
    IF patternKey \notin PatternKeys THEN [x |-> 0, y |-> 3000, z |-> 0]
    ELSE position(patternFn(patternKey, t))

\* generatePreview: t = (i / numPoints) * duration
previewTimeNextSample(i, numPoints, duration) ==
    Mul(Div((i + 1) * SCALE, numPoints * SCALE), duration)

previewTime(i, numPoints, duration) == Mul(Div(i * SCALE, numPoints * SCALE), duration)

\* the point [p.x, p.y, p.z] pushed for a setpoint p
previewPoint(p) == << p.x, p.y, p.z >>

\* generatePreview(patternKey, numPoints, duration): the points for
\* i = 0..numPoints; an unknown key gives the empty list
generatePreview(patternKey, numPoints, duration) ==
    IF patternKey \notin PatternKeys THEN << >>
    ELSE [k \in 1..(numPoints + 1) |->
             previewPoint(patternFn(patternKey, previewTime(k - 1, numPoints, duration)))]

\* ------------------------------------------------------------------------
\*  controllers.js
\* ------------------------------------------------------------------------
AlgoIds == {"PID", "SMC", "STS", "MPC"}

defaultGains(algo) ==
    CASE algo = "PID" ->
            [Kp_xy |-> 4000, Ki_xy |-> 200, Kd_xy |-> 3000,
             Kp_z |-> 8000, Ki_z |-> 500, Kd_z |-> 5000,
             Kp_att |-> 12000, Kd_att |-> 4000,
             Kp_yaw |-> 3000, Kd_yaw |-> 1500, iMax |-> 2000]
      [] algo = "SMC" ->
            [lambda_xy |-> 2500, lambda_z |-> 3000, eta_xy |-> 3000, eta_z |-> 5000,
             phi_xy |-> 0, phi_z |-> 0,
             lambda_att |-> 8000, eta_att |-> 4000, phi_att |-> 100]
      [] algo = "STS" ->
            [lambda_xy |-> 2500, lambda_z |-> 3000,
             alpha1_xy |-> 5000, alpha2_xy |-> 3000,
             alpha1_z |-> 8000, alpha2_z |-> 5000,
             lambda_att |-> 8000, alpha1_att |-> 10000, alpha2_att |-> 6000]
      [] algo = "MPC" ->
            [N |-> 10, Q_pos |-> 8000, Q_vel |-> 2000, R |-> 100,
             Kp_att |-> 12000, Kd_att |-> 4000]

\* the object resetInternal() assigns; mpcPrediction is absent (<< >>)
zeroIntState ==
    [iEx |-> 0, iEy |-> 0, iEz |-> 0,
     v_x |-> 0, v_y |-> 0, v_z |-> 0, v_phi |-> 0, v_theta |-> 0, v_psi |-> 0,
     s_x |-> 0, s_y |-> 0, s_z |-> 0, s_phi |-> 0, s_theta |-> 0,
     T |-> 0, tau_phi |-> 0, tau_theta |-> 0, tau_psi |-> 0,
     mpcPrediction |-> << >>]

\* a reset whose object literal lacks v_psi: the field reads as not-a-number
resetInternalOmitsVpsi == [zeroIntState EXCEPT !.v_psi = NAN]

resetInternal == zeroIntState

\* getDefaultGains(algo): a copy of the entry (it throws when there is none)
getDefaultGains(algo) == defaultGains(algo)

\* a sign that takes 0 for positive
signOfZeroIsOne(x) == IF Ge(x, 0) THEN SCALE ELSE -SCALE

sign(x) == IF Gt(x, 0) THEN SCALE ELSE IF Lt(x, 0) THEN -SCALE ELSE 0

\* sat for phi > 0, v = s / phi
satRatio(v) == IF Le(MathAbs(v), SCALE) THEN v ELSE sign(v)

sat(sv, phi) == IF Le(phi, 0) THEN sign(sv) ELSE satRatio(Div(sv, phi))

\* position and velocity errors, in the order x, y, z
errors(state, target) ==
    [ex |-> Sub(target.x, state.x), ey |-> Sub(target.y, state.y),
     ez |-> Sub(target.z, state.z),
     evx |-> Sub(OrZero(target.vx), state.vx),
     evy |-> Sub(OrZero(target.vy), state.vy),
     evz |-> Sub(OrZero(target.vz), state.vz)]

\* thrust and desired attitude from the desired acceleration (the same
\* statements in computePID, computeSMC, computeSTS and computeMPC)
thrustOf(state, ay_des) ==
    clamp(Div(Mul(P_m, Add(P_g, ay_des)),
              MathMax(Mul(MathCos(state.phi), MathCos(state.theta)), 100)),
          0, 4 * ((P_m * P_g) \div SCALE))

phiDesOf(state, T, ax_des, az_des) ==
    clamp(MathAsin(clamp(Div(Mul(P_m, Sub(Mul(ax_des, MathSin(state.psi)),
                                          Mul(az_des, MathCos(state.psi)))),
                             MathMax(T, 100)), -800, 800)), -600, 600)

thetaDesOf(state, ax_des, ay_des, az_des) ==
    clamp(MathAtan2(Add(Mul(ax_des, MathCos(state.psi)), Mul(az_des, MathSin(state.psi))),
                    Add(P_g, ay_des)),
          -600, 600)

\* a = << ax_des, ay_des, az_des >>: the thrust and the desired attitude
attitudeOf(state, a) ==
    Let(thrustOf(state, a[2]), LAMBDA T :
        [T |-> T, phi_des |-> phiDesOf(state, T, a[1], a[3]),
         theta_des |-> thetaDesOf(state, a[1], a[2], a[3])])

\* a compute that returns u and leaves the published fields as they were
OutcomeUnpublished(T, tau_phi, tau_theta, tau_psi, int, phi_des, theta_des) ==
    [u |-> <<T, tau_phi, tau_theta, tau_psi>>, int |-> int,
     phi_des |-> phi_des, theta_des |-> theta_des]

\* what every compute returns: the input vector u, the controller state
\* after the call, and the desired attitude it derived
Outcome(T, tau_phi, tau_theta, tau_psi, int, phi_des, theta_des) ==
    [u |-> <<T, tau_phi, tau_theta, tau_psi>>,
     int |-> [int EXCEPT !.T = T, !.tau_phi = tau_phi,
                         !.tau_theta = tau_theta, !.tau_psi = tau_psi],
     phi_des |-> phi_des, theta_des |-> theta_des]

\* integral of one axis with anti-windup
pidIntegral(i, e, G) == clamp(Add(i, DivI(e, DT_HZ)), Neg(G.iMax), G.iMax)

\* the attitude PD loop of computePID
pidInner(int, state, target, G, e, i, d) ==
    Outcome(d.T,
            Sub(Mul(G.Kp_att, Sub(d.phi_des, state.phi)), Mul(G.Kd_att, state.p)),
            Sub(Mul(G.Kp_att, Sub(d.theta_des, state.theta)), Mul(G.Kd_att, state.q)),
            Sub(Mul(G.Kp_yaw, Sub(OrZero(target.yaw), state.psi)), Mul(G.Kd_yaw, state.r)),
            [int EXCEPT !.iEx = i[1], !.iEy = i[2], !.iEz = i[3],
                        !.s_x = e.ex, !.s_y = e.ey, !.s_z = e.ez],
            d.phi_des, d.theta_des)

\* a position loop with the families swapped: Kp_z, Ki_z, Kd_z on the
\* horizontal axes and Kp_xy, Ki_xy, Kd_xy on the altitude axis
pidOuterCrossWired(G, e, i) ==
    << Add(Add(Mul(G.Kp_z, e.ex), Mul(G.Ki_z, i[1])), Mul(G.Kd_z, e.evx)),
       Add(Add(Mul(G.Kp_xy, e.ey), Mul(G.Ki_xy, i[2])), Mul(G.Kd_xy, e.evy)),
       Add(Add(Mul(G.Kp_z, e.ez), Mul(G.Ki_z, i[3])), Mul(G.Kd_z, e.evz)) >>

\* the position PID loop of computePID: << ax_des, ay_des, az_des >>
pidOuter(G, e, i) ==
    << Add(Add(Mul(G.Kp_xy, e.ex), Mul(G.Ki_xy, i[1])), Mul(G.Kd_xy, e.evx)),
       Add(Add(Mul(G.Kp_z, e.ey), Mul(G.Ki_z, i[2])), Mul(G.Kd_z, e.evy)),
       Add(Add(Mul(G.Kp_xy, e.ez), Mul(G.Ki_xy, i[3])), Mul(G.Kd_xy, e.evz)) >>

computePID(int, state, target, G) ==
    Let(errors(state, target), LAMBDA e :
    Let(<< pidIntegral(int.iEx, e.ex, G), pidIntegral(int.iEy, e.ey, G),
           pidIntegral(int.iEz, e.ez, G) >>, LAMBDA i :
    Let(attitudeOf(state, pidOuter(G, e, i)), LAMBDA d :
        pidInner(int, state, target, G, e, i, d))))

\* Ixx * v, Izz * v
byIxx(v) == MulQ(v, IxxNum, IxxDen)
byIzz(v) == MulQ(v, IzzNum, IzzDen)

\* the sliding surfaces sx, sy, sz of computeSMC and computeSTS
surfaces(G, e) ==
    << Add(e.evx, Mul(G.lambda_xy, e.ex)), Add(e.evy, Mul(G.lambda_z, e.ey)),
       Add(e.evz, Mul(G.lambda_xy, e.ez)) >>

\* the attitude surfaces s_phi, s_theta, s_psi (psi_d = 0)
attSurfaces(state, G, d) ==
    << Add(Neg(state.p), Mul(G.lambda_att, Sub(d.phi_des, state.phi))),
       Add(Neg(state.q), Mul(G.lambda_att, Sub(d.theta_des, state.theta))),
       Add(Neg(state.r), Mul(G.lambda_att, Sub(0, state.psi))) >>

smcOuter(G, e, sv) ==
    << Add(Mul(G.lambda_xy, e.evx), Mul(G.eta_xy, sat(sv[1], G.phi_xy))),
       Add(Mul(G.lambda_z, e.evy), Mul(G.eta_z, sat(sv[2], G.phi_z))),
       Add(Mul(G.lambda_xy, e.evz), Mul(G.eta_xy, sat(sv[3], G.phi_xy))) >>

smcInner(int, state, G, sv, d, sa) ==
    Outcome(d.T,
            byIxx(Add(Mul(G.lambda_att, Neg(state.p)), Mul(G.eta_att, sat(sa[1], G.phi_att)))),
            byIxx(Add(Mul(G.lambda_att, Neg(state.q)), Mul(G.eta_att, sat(sa[2], G.phi_att)))),
            byIzz(Add(Mul(G.lambda_att, Neg(state.r)), Mul(G.eta_att, sat(sa[3], G.phi_att)))),
            [int EXCEPT !.s_x = sv[1], !.s_y = sv[2], !.s_z = sv[3],
                        !.s_phi = sa[1], !.s_theta = sa[2]],
            d.phi_des, d.theta_des)

computeSMC(int, state, target, G) ==
    Let(errors(state, target), LAMBDA e :
    Let(surfaces(G, e), LAMBDA sv :
    Let(attitudeOf(state, smcOuter(G, e, sv)), LAMBDA d :
    Let(attSurfaces(state, G, d), LAMBDA sa :
        smcInner(int, state, G, sv, d, sa)))))

\* v += -alpha2 * sign(s) * dt
stsAccumFromZero(v, alpha2, sv) == DivI(Mul(Neg(alpha2), sign(sv)), DT_HZ)

stsAccum(v, alpha2, sv) == Add(v, DivI(Mul(Neg(alpha2), sign(sv)), DT_HZ))

\* alpha1 * sqrt(|s|) * sign(s) + v
stsLaw(alpha1, sv, v) == Add(Mul(Mul(alpha1, MathSqrt(MathAbs(sv))), sign(sv)), v)

stsInner(int, state, G, sv, v, d, sa, va) ==
    Outcome(d.T,
            byIxx(stsLaw(G.alpha1_att, sa[1], va[1])),
            byIxx(stsLaw(G.alpha1_att, sa[2], va[2])),
            byIzz(stsLaw(G.alpha1_att, sa[3], OrZero(va[3]))),
            [int EXCEPT !.s_x = sv[1], !.s_y = sv[2], !.s_z = sv[3],
                        !.v_x = v[1], !.v_y = v[2], !.v_z = v[3],
                        !.s_phi = sa[1], !.s_theta = sa[2],
                        !.v_phi = va[1], !.v_theta = va[2], !.v_psi = va[3]],
            d.phi_des, d.theta_des)

computeSTS(int, state, target, G) ==
    Let(errors(state, target), LAMBDA e :
    Let(surfaces(G, e), LAMBDA sv :
    Let(<< stsAccum(int.v_x, G.alpha2_xy, sv[1]), stsAccum(int.v_y, G.alpha2_z, sv[2]),
           stsAccum(int.v_z, G.alpha2_xy, sv[3]) >>, LAMBDA v :
    Let(attitudeOf(state, << stsLaw(G.alpha1_xy, sv[1], v[1]),
                             stsLaw(G.alpha1_z, sv[2], v[2]),
                             stsLaw(G.alpha1_xy, sv[3], v[3]) >>), LAMBDA d :
    Let(attSurfaces(state, G, d), LAMBDA sa :
    Let(<< stsAccum(int.v_phi, G.alpha2_att, sa[1]),
           stsAccum(int.v_theta, G.alpha2_att, sa[2]),
           stsAccum(int.v_psi, G.alpha2_att, sa[3]) >>, LAMBDA va :
        stsInner(int, state, G, sv, v, d, sa, va)))))))

\* component axis (1 = x, 2 = y, 3 = z) of a position
axisOf(r, axis) == IF axis = 1 THEN r.x ELSE IF axis = 2 THEN r.y ELSE r.z

\* one term of the sums of solve1D: w * (Q_p * errPos - Q_v * vel)
solveTerm(k, w, ref, pos, vel, G) ==
    Mul(w, Sub(Mul(G.Q_pos, Sub(ref, Add(pos, MulQ(vel, 2 * k, DT_HZ)))),
               Mul(G.Q_vel, vel)))

\* w = 1.0 - 0.3 * (k - 1) / N
solveWeight(k, N) == SCALE - RDiv(300 * (k - 1), N)

\* solve1D: the iterations k..hi of the loop, from the sums
\* acc = << totalAccel, weightSum >> so far; axis selects the component of
\* the lookahead reference
RECURSIVE solveSum(_, _, _, _, _, _, _, _, _)
solveSum(k, hi, acc, pos, vel, axis, G, patternKey, time) ==
    IF k > hi THEN acc
    ELSE Let(<< Add(acc[1], solveTerm(k, solveWeight(k, G.N),
                                      axisOf(getTrajectoryFn(patternKey, TimeFx(time + 2 * k)),
                                             axis),
                                      pos, vel, G)),
                Add(acc[2], solveWeight(k, G.N)) >>,
             LAMBDA a : solveSum(k + 1, hi, a, pos, vel, axis, G, patternKey, time))

\* the loop k..N, run six iterations at a time (the evaluation depth stays
\* bounded; the order of the additions is the loop's)
RECURSIVE solveLoop(_, _, _, _, _, _, _, _)
solveLoop(k, acc, pos, vel, axis, G, patternKey, time) ==
    IF k > G.N THEN acc
    ELSE Let(solveSum(k, IF k + 5 < G.N THEN k + 5 ELSE G.N, acc,
                      pos, vel, axis, G, patternKey, time),
             LAMBDA a : solveLoop(k + 6, a, pos, vel, axis, G, patternKey, time))

\* totalAccel / (weightSum * (1 + R))
solveRatio(sums, G) == Div(sums[1], Mul(sums[2], Add(SCALE, G.R)))

solve1D(pos, vel, axis, G, patternKey, time) ==
    solveRatio(solveLoop(1, << 0, 0 >>, pos, vel, axis, G, patternKey, time), G)

\* one sample of the constant-acceleration rollout, k * dtPred ahead
rollout(pos, vel, acc, k) ==
    Add(Add(pos, MulQ(vel, 2 * k, DT_HZ)),
        MulQ(Mul(500, acc), 4 * k * k, DT_HZ * DT_HZ))

mpcPredictionOf(state, a, N) ==
    [i \in 1..(N + 1) |->
        [x |-> rollout(state.x, state.vx, a[1], i - 1),
         y |-> rollout(state.y, state.vy, a[2], i - 1),
         z |-> rollout(state.z, state.vz, a[3], i - 1)]]

\* the attitude PD loop of computeMPC (the yaw torque uses Kp_att, Kd_att)
mpcInner(int, state, target, G, a, d) ==
    Outcome(d.T,
            Sub(Mul(G.Kp_att, Sub(d.phi_des, state.phi)), Mul(G.Kd_att, state.p)),
            Sub(Mul(G.Kp_att, Sub(d.theta_des, state.theta)), Mul(G.Kd_att, state.q)),
            Sub(Mul(G.Kp_att, Sub(0, state.psi)), Mul(G.Kd_att, state.r)),
            [int EXCEPT !.mpcPrediction = mpcPredictionOf(state, a, G.N),
                        !.s_x = Sub(target.x, state.x),
                        !.s_y = Sub(target.y, state.y),
                        !.s_z = Sub(target.z, state.z)],
            d.phi_des, d.theta_des)

\* the position and the velocity of the plant along an axis
posOf(state, axis) == IF axis = 1 THEN state.x ELSE IF axis = 2 THEN state.y ELSE state.z
velOf(state, axis) == IF axis = 1 THEN state.vx ELSE IF axis = 2 THEN state.vy ELSE state.vz

\* trajectoryFn is the closure getTrajectoryFn(patternKey) made by simStep
computeMPC(int, state, target, G, patternKey, time) ==
    Let([axis \in 1..3 |-> solve1D(posOf(state, axis), velOf(state, axis), axis,
                                   G, patternKey, time)], LAMBDA a :
    Let(attitudeOf(state, a), LAMBDA d :
        mpcInner(int, state, target, G, a, d)))

\* what compute returns for an id its switch has no case for: undefined
\* (u = << >>), with the controller state untouched
Undefined(int) == [u |-> << >>, int |-> int, phi_des |-> 0, theta_des |-> 0]

compute(algo, int, state, target, gains, patternKey, time) ==
    CASE algo = "PID" -> computePID(int, state, target, gains)
      [] algo = "SMC" -> computeSMC(int, state, target, gains)
      [] algo = "STS" -> computeSTS(int, state, target, gains)
      [] algo = "MPC" -> computeMPC(int, state, target, gains, patternKey, time)
      [] OTHER -> Undefined(int)

\* ------------------------------------------------------------------------
\*  trajectories.js: keyboard channel and custom-waypoint walker
\* ------------------------------------------------------------------------
kbInit == [x |-> 0, y |-> 2000, z |-> 0, yaw |-> 0]

Held(keys, a, b) == a \in keys \/ b \in keys

\* kbVel after the key tests of updateKeyboard (a later test overrides)
kbVelOf(keys) ==
    [x |-> IF Held(keys, "KeyD", "ArrowRight") THEN 3000
           ELSE IF Held(keys, "KeyA", "ArrowLeft") THEN -3000 ELSE 0,
     y |-> IF Held(keys, "ShiftLeft", "ShiftRight") THEN -3000
           ELSE IF "Space" \in keys THEN 3000 ELSE 0,
     z |-> IF Held(keys, "KeyS", "ArrowDown") THEN 3000
           ELSE IF Held(keys, "KeyW", "ArrowUp") THEN -3000 ELSE 0,
     yaw |-> IF "KeyE" \in keys THEN 1500
             ELSE IF "KeyQ" \in keys THEN -1500 ELSE 0]

\* kbTarget after the four accumulations of updateKeyboard
kbAdvance(kb, v) ==
    [x |-> Add(kb.x, DivI(v.x, DT_HZ)),
     y |-> MathMax(0, Add(kb.y, DivI(v.y, DT_HZ))),
     z |-> Add(kb.z, DivI(v.z, DT_HZ)),
     yaw |-> Add(kb.yaw, DivI(v.yaw, DT_HZ))]

\* the object updateKeyboard returns
kbSetpoint(nkb, v) ==
    [kb |-> nkb, target |-> Setpoint(nkb.x, nkb.y, nkb.z, v.x, v.y, v.z, nkb.yaw)]

\* updateKeyboard(keys, dt): the new kbTarget and the returned setpoint
updateKeyboard(kb, keys) ==
    Let(kbVelOf(keys), LAMBDA v :
    Let(kbAdvance(kb, v), LAMBDA nkb : kbSetpoint(nkb, v)))

\* a reset that puts the keyboard target on the ground
resetKeyboardAtGround == [kbInit EXCEPT !.y = 0]

resetKeyboard == kbInit

\* customT += 0.016
CUSTOM_TICK == 16
\* customSpeed = 1.0
customSpeed == 1000

\* dist / customSpeed for the segment from curr to next
segTimeOf(dx, dy, dz) ==
    Let(Mul(dx, dx), LAMBDA xx :
    Let(Mul(dy, dy), LAMBDA yy :
    Let(Mul(dz, dz), LAMBDA zz :
    Let(Add(xx, yy), LAMBDA xy :
    Let(Add(xy, zz), LAMBDA sq :
    Let(MathSqrt(sq), LAMBDA dist :
        Div(dist, customSpeed)))))))

\* a walker that restarts at the first segment one segment early
customOutcomeSkipsClosing(n, idx, ct1, curr, d, frac, sm) ==
    [idx |-> IF Ge(frac, SCALE) THEN (IF idx + 1 >= n - 1 THEN 0 ELSE idx + 1)
             ELSE idx,
     ct |-> IF Ge(frac, SCALE) THEN 0 ELSE ct1,
     target |-> Setpoint(Add(curr[1], Mul(d[1], sm)), Add(curr[2], Mul(d[2], sm)),
                         Add(curr[3], Mul(d[3], sm)), 0, 0, 0, 0)]

\* the walker state and the setpoint once frac is known
customOutcome(n, idx, ct1, curr, d, frac, sm) ==
    [idx |-> IF Ge(frac, SCALE) THEN (idx + 1) % n ELSE idx,
     ct |-> IF Ge(frac, SCALE) THEN 0 ELSE ct1,
     target |-> Setpoint(Add(curr[1], Mul(d[1], sm)), Add(curr[2], Mul(d[2], sm)),
                         Add(curr[3], Mul(d[3], sm)), 0, 0, 0, 0)]

\* the interpolation between the waypoints curr and next
customSegment(n, idx, ct1, curr, next) ==
    Let(<< Sub(next[1], curr[1]), Sub(next[2], curr[2]), Sub(next[3], curr[3]) >>,
        LAMBDA d :
    Let(segTimeOf(d[1], d[2], d[3]), LAMBDA segTime :
    Let(Div(ct1, segTime), LAMBDA ratio :
    Let(MathMin(ratio, SCALE), LAMBDA frac :
    Let(smoothstep(frac), LAMBDA sm :
        customOutcome(n, idx, ct1, curr, d, frac, sm))))))

\* evaluateCustom(t): the walker state after the call and the setpoint
evaluateCustom(wps, idx, ct) ==
    IF Len(wps) = 0 THEN [idx |-> idx, ct |-> ct, target |-> defaultSetpoint]
    ELSE IF Len(wps) = 1
    THEN [idx |-> idx, ct |-> ct,
          target |-> Setpoint(wps[1][1], wps[1][2], wps[1][3], 0, 0, 0, 0)]
    ELSE Let(Add(ct, CUSTOM_TICK), LAMBDA ct1 :
             customSegment(Len(wps), idx, ct1,
                           wps[(idx % Len(wps)) + 1], wps[((idx + 1) % Len(wps)) + 1]))

\* ------------------------------------------------------------------------
\*  app.js
\* ------------------------------------------------------------------------
VARIABLES
    simState,           \* the plant state object
    simTime,            \* simulation time, in substeps of DT
    paused,
    simSpeed,           \* speed factor, in tenths
    currentAlgo,
    currentPattern,
    currentGains,
    panelAlgo,          \* the algorithm the gain sliders were built for
    chartUpdateCounter,
    windIntensity,
    customWaypoints,    \* the list shared by App and Trajectories
    intState,           \* Controllers: internal state
    kbTarget,           \* Trajectories: keyboard accumulator
    customIdx,
    customT,
    keys,               \* Keyboard: the codes whose entry is true
    recording,          \* DataLogger
    records,
    startTime,
    \* observation of the run (not program state)
    frameLog,           \* the substeps of the last loop callback, in order
    raised,             \* the last handler ended by an uncaught exception
    nSub,               \* substeps begun since the last episode reset
    nCompute,           \* controller computes returned since then
    nPlant,             \* plant steps completed since then
    nEvents,            \* UI events so far
    nResets,            \* episode resets so far
    lastOp,             \* the handler that ran last
    resetOf,            \* the controller state that handler's resetInternal
                        \* replaced (<< >> when it did not call it)
    probe               \* a direct call of a library function: its name, its
                        \* arguments and what it returned so far

vars == << simState, simTime, paused, simSpeed, currentAlgo, currentPattern,
           currentGains, panelAlgo, chartUpdateCounter, windIntensity, customWaypoints,
           intState, kbTarget, customIdx, customT, keys, recording, records,
           startTime, frameLog, raised, nSub, nCompute, nPlant, nEvents,
           nResets, lastOp, resetOf, probe >>

\* bounds of the exploration
MaxTicks  == 6
MaxEvents == 1
MaxResets == 1

CHART_INTERVAL == 4

\* the wind disturbance of simStep at simulation time t (seconds)
windAt(W, t) ==
    << Mul(W, Add(Mul(MathSin(Mul(t, 1700)), 500), Mul(MathSin(Mul(t, 300)), 500))),
       Mul(Mul(W, MathSin(Mul(t, 800))), 300),
       Mul(W, Add(Mul(MathCos(Mul(t, 1200)), 400), Mul(MathSin(Mul(t, 2100)), 300))) >>

windEnv(W, time) == windAt(W, TimeFx(time))

\* the part of the program a substep reads and writes
World ==
    [simState |-> simState, simTime |-> simTime, intState |-> intState,
     kbTarget |-> kbTarget, customIdx |-> customIdx, customT |-> customT,
     frameLog |-> << >>, raised |-> FALSE,
     nSub |-> nSub, nCompute |-> nCompute, nPlant |-> nPlant]

\* the settings a substep reads
Config ==
    [algo |-> currentAlgo, pattern |-> currentPattern, gains |-> currentGains,
     wind |-> windIntensity, keys |-> keys, wps |-> customWaypoints]

\* getCurrentTarget(): the setpoint, and the world with the reference
\* generator's state after the call
getCurrentTarget(w, cfg) ==
    IF cfg.pattern = "KEYBOARD"
    THEN Let(updateKeyboard(w.kbTarget, cfg.keys), LAMBDA r :
             [target |-> r.target, w |-> [w EXCEPT !.kbTarget = r.kb]])
    ELSE IF cfg.pattern = "CUSTOM"
    THEN Let(evaluateCustom(cfg.wps, w.customIdx, w.customT), LAMBDA r :
             [target |-> r.target, w |-> [w EXCEPT !.customIdx = r.idx, !.customT = r.ct]])
    ELSE [target |-> evaluate(cfg.pattern, TimeFx(w.simTime)), w |-> w]

\* the record of one substep kept in frameLog: what the controller was
\* given and what it returned
substepEntry(w, target, out) ==
    [t |-> w.simTime, target |-> target, pre |-> w.simState,
     intPre |-> w.intState, u |-> out.u,
     phi_des |-> out.phi_des, theta_des |-> out.theta_des]

\* the world after Controllers.compute returned out
afterCompute(w, target, out) ==
    [w EXCEPT !.intState = out.int, !.nCompute = w.nCompute + 1,
              !.frameLog = Append(w.frameLog, substepEntry(w, target, out))]

\* Physics.step(simState, u, windEnv, DT); it throws on an undefined input
\* vector (derivatives destructures u) before it writes anything
plantStep(w, pre, u, cfg) ==
    IF u = << >>
    THEN [w EXCEPT !.raised = TRUE]
    ELSE [w EXCEPT !.simState = step(pre, u, windEnv(cfg.wind, w.simTime)),
                   !.nPlant = w.nPlant + 1]

\* simStep(): one physics substep
simStep(w, cfg) ==
    Let(getCurrentTarget([w EXCEPT !.simTime = w.simTime + 1, !.nSub = w.nSub + 1], cfg),
        LAMBDA q :
    Let(compute(cfg.algo, q.w.intState, q.w.simState, q.target, cfg.gains,
                cfg.pattern, q.w.simTime),
        LAMBDA out :
    Let(afterCompute(q.w, q.target, out),
        LAMBDA wc : plantStep(wc, q.w.simState, out.u, cfg))))

\* for (i = 0; i < stepsPerFrame; i++) simStep();  an exception ends the loop
RECURSIVE runSteps(_, _, _)
runSteps(w, cfg, n) ==
    IF n = 0 \/ w.raised THEN w ELSE runSteps(simStep(w, cfg), cfg, n - 1)

\* Math.round(simSpeed * 2)
stepsPerFrame(speed) == (speed * 2 + 5) \div 10

\* one row of DataLogger.log: (simTime - startTime).toFixed(4), in 1e-4 s
logRow(time, start, algo) == [t |-> RDiv((time - start) * 10000, DT_HZ), algo |-> algo]

\* chartUpdateCounter after the chart block of loop()
chartCounter(counter) == IF counter + 1 >= CHART_INTERVAL THEN 0 ELSE counter + 1

\* the part of loop() after the substeps, as far as it touches the world:
\* the chart sample (chart), the telemetry overlay and the logger (rec)
\* each query the setpoint once more
afterSteps(w, cfg, chart, rec) ==
    Let(IF chart THEN getCurrentTarget(w, cfg).w ELSE w, LAMBDA wa :
    Let(getCurrentTarget(wa, cfg).w, LAMBDA wb :
        IF rec THEN getCurrentTarget(wb, cfg).w ELSE wb))

\* no library function is being called directly
NoProbe == [fn |-> "none", args |-> << >>, out |-> << >>]

\* the page after App.init(), before the first frame, with the waypoints
\* wps placed
BootWith(wps) ==
    /\ simState = createState
    /\ simTime = 0
    /\ paused = FALSE
    /\ simSpeed = 10
    /\ currentAlgo = "PID"
    /\ currentPattern = "HOVER"
    /\ currentGains = defaultGains("PID")
    /\ panelAlgo = "PID"
    /\ chartUpdateCounter = 0
    /\ windIntensity = 0
    /\ customWaypoints = wps
    /\ intState = resetInternal
    /\ kbTarget = kbInit
    /\ customIdx = 0
    /\ customT = 0
    /\ keys = {}
    /\ recording = FALSE
    /\ records = << >>
    /\ startTime = 0
    /\ frameLog = << >>
    /\ raised = FALSE
    /\ nSub = 0
    /\ nCompute = 0
    /\ nPlant = 0
    /\ nEvents = 0
    /\ nResets = 0
    /\ lastOp = "init"
    /\ resetOf = << >>

Boot == BootWith(<< >>)

Init == Boot /\ probe = NoProbe

\* the frames explored: those that keep simTime within MaxTicks
frameInBounds == simTime + stepsPerFrame(simSpeed) <= MaxTicks

\* what a frame leaves alone whether paused or not
frameKeeps ==
    /\ lastOp' = "loop"
    /\ resetOf' = << >>
    /\ probe' = probe
    /\ UNCHANGED << paused, simSpeed, currentAlgo, currentPattern, currentGains,
                    panelAlgo, windIntensity, customWaypoints, keys, recording,
                    startTime, nEvents, nResets >>

\* loop() while paused: it renders and returns
pausedFrame ==
    /\ frameLog' = << >>
    /\ raised' = FALSE
    /\ UNCHANGED << simState, simTime, intState, kbTarget, customIdx, customT,
                    chartUpdateCounter, records, nSub, nCompute, nPlant >>

\* loop() while running: the substeps, then the chart, telemetry and logger
\* blocks (skipped when a substep raised)
runFrame ==
    \E w \in {runSteps(World, Config, stepsPerFrame(simSpeed))} :
    \E wf \in {IF w.raised THEN w
                ELSE afterSteps(w, Config, chartUpdateCounter + 1 >= CHART_INTERVAL,
                                recording)} :
        /\ simState' = wf.simState
        /\ simTime' = wf.simTime
        /\ intState' = wf.intState
        /\ kbTarget' = wf.kbTarget
        /\ customIdx' = wf.customIdx
        /\ customT' = wf.customT
        /\ frameLog' = wf.frameLog
        /\ raised' = wf.raised
        /\ nSub' = wf.nSub
        /\ nCompute' = wf.nCompute
        /\ nPlant' = wf.nPlant
        /\ chartUpdateCounter' = IF w.raised THEN chartUpdateCounter
                                 ELSE chartCounter(chartUpdateCounter)
        /\ records' = IF ~w.raised /\ recording
                      THEN Append(records, logRow(wf.simTime, startTime, currentAlgo))
                      ELSE records

\* a loop() that issues the substeps without looking at paused
loopIgnoresPause == frameInBounds /\ runFrame /\ frameKeeps

\* loop(timestamp): one host frame callback
loop == frameInBounds /\ (IF paused THEN pausedFrame ELSE runFrame) /\ frameKeeps

\* a UI event that adds to the configuration: counted against MaxEvents.
\* op names the handler, rst is what its resetInternal replaced
Event(op, rst) ==
    /\ nEvents < MaxEvents
    /\ nEvents' = nEvents + 1
    /\ nResets' = nResets
    /\ frameLog' = << >>
    /\ lastOp' = op
    /\ resetOf' = rst
    /\ probe' = probe

\* a UI event that only takes back (a key released, a waypoint removed, the
\* run resumed): bounded by what there is to take back
Undo(op) ==
    /\ nEvents' = nEvents
    /\ nResets' = nResets
    /\ frameLog' = << >>
    /\ lastOp' = op
    /\ resetOf' = << >>
    /\ probe' = probe

\* the algo-select change handler; getDefaultGains throws on an id that
\* defaultGains has no entry for, after currentAlgo has been assigned
algoChange(id) ==
    /\ Event("algoChange", IF id \in AlgoIds THEN << intState >> ELSE << >>)
    /\ id # currentAlgo
    /\ currentAlgo' = id
    /\ IF id \in AlgoIds
       THEN /\ currentGains' = getDefaultGains(id)
            /\ intState' = resetInternal
            /\ panelAlgo' = id
            /\ raised' = FALSE
       ELSE /\ raised' = TRUE
            /\ UNCHANGED << currentGains, intState, panelAlgo >>
    /\ UNCHANGED << simState, simTime, paused, simSpeed, currentPattern,
                    chartUpdateCounter, windIntensity, customWaypoints, kbTarget,
                    customIdx, customT, keys, recording, records, startTime,
                    nSub, nCompute, nPlant >>

\* the pattern-select change handler
patternChange(id) ==
    /\ Event("patternChange", << >>)
    /\ id # currentPattern
    /\ currentPattern' = id
    /\ raised' = FALSE
    /\ UNCHANGED << simState, simTime, paused, simSpeed, currentAlgo, currentGains,
                    panelAlgo, chartUpdateCounter, windIntensity, customWaypoints, intState,
                    kbTarget, customIdx, customT, keys, recording, records, startTime,
                    nSub, nCompute, nPlant >>

windInput(v) ==
    /\ Event("windInput", << >>)
    /\ v # windIntensity
    /\ windIntensity' = v
    /\ raised' = FALSE
    /\ UNCHANGED << simState, simTime, paused, simSpeed, currentAlgo, currentPattern,
                    currentGains, panelAlgo, chartUpdateCounter, customWaypoints, intState,
                    kbTarget, customIdx, customT, keys, recording, records, startTime,
                    nSub, nCompute, nPlant >>

speedInput(v) ==
    /\ Event("speedInput", << >>)
    /\ v # simSpeed
    /\ simSpeed' = v
    /\ raised' = FALSE
    /\ UNCHANGED << simState, simTime, paused, currentAlgo, currentPattern,
                    currentGains, panelAlgo, chartUpdateCounter, windIntensity, customWaypoints,
                    intState, kbTarget, customIdx, customT, keys, recording, records,
                    startTime, nSub, nCompute, nPlant >>

\* getGainDefinitions(algo): the sliders of the panel, as << key, min, max >>
getGainDefinitions(algo) ==
    CASE algo = "PID" ->
            { <<"Kp_xy", 0, 20000>>, <<"Ki_xy", 0, 2000>>, <<"Kd_xy", 0, 15000>>,
              <<"Kp_z", 0, 30000>>, <<"Ki_z", 0, 3000>>, <<"Kd_z", 0, 15000>>,
              <<"Kp_att", 0, 30000>>, <<"Kd_att", 0, 15000>> }
      [] algo = "SMC" ->
            { <<"lambda_xy", 100, 10000>>, <<"lambda_z", 100, 10000>>,
              <<"eta_xy", 100, 15000>>, <<"eta_z", 100, 15000>>,
              <<"phi_xy", 0, 2000>>, <<"phi_z", 0, 2000>>,
              <<"lambda_att", 1000, 20000>>, <<"eta_att", 500, 15000>> }
      [] algo = "STS" ->
            { <<"lambda_xy", 100, 10000>>, <<"lambda_z", 100, 10000>>,
              <<"alpha1_xy", 100, 20000>>, <<"alpha2_xy", 100, 15000>>,
              <<"alpha1_z", 100, 20000>>, <<"alpha2_z", 100, 15000>>,
              <<"lambda_att", 1000, 20000>>, <<"alpha1_att", 1000, 25000>> }
      [] algo = "MPC" ->
            { <<"N", 3, 30>>, <<"Q_pos", 100, 30000>>, <<"Q_vel", 100, 10000>>,
              <<"R", 10, 5000>>, <<"Kp_att", 1000, 30000>>, <<"Kd_att", 500, 15000>> }
      [] OTHER -> {}

\* the input handler of one gain slider of the panel
gainInput(key, v) ==
    /\ Event("gainInput", << >>)
    /\ \E d \in getGainDefinitions(panelAlgo) : d[1] = key /\ d[2] <= v /\ v <= d[3]
    /\ v # currentGains[key]
    /\ currentGains' = [currentGains EXCEPT ![key] = v]
    /\ raised' = FALSE
    /\ UNCHANGED << simState, simTime, paused, simSpeed, currentAlgo, currentPattern,
                    panelAlgo, chartUpdateCounter, windIntensity, customWaypoints, intState,
                    kbTarget, customIdx, customT, keys, recording, records, startTime,
                    nSub, nCompute, nPlant >>

\* resetSim(): the reset button; counted against MaxResets
resetSim ==
    /\ nResets < MaxResets
    /\ nResets' = nResets + 1
    /\ nEvents' = nEvents
    /\ frameLog' = << >>
    /\ lastOp' = "resetSim"
    /\ resetOf' = << intState >>
    /\ probe' = probe
    /\ simState' = createState
    /\ simTime' = 0
    /\ intState' = resetInternal
    /\ kbTarget' = resetKeyboard
    /\ raised' = FALSE
    /\ nSub' = 0
    /\ nCompute' = 0
    /\ nPlant' = 0
    /\ UNCHANGED << paused, simSpeed, currentAlgo, currentPattern, currentGains,
                    panelAlgo, chartUpdateCounter, windIntensity, customWaypoints, customIdx,
                    customT, keys, recording, records, startTime >>

togglePause ==
    /\ IF paused THEN Undo("togglePause") ELSE Event("togglePause", << >>)
    /\ paused' = ~paused
    /\ raised' = FALSE
    /\ UNCHANGED << simState, simTime, simSpeed, currentAlgo, currentPattern,
                    currentGains, panelAlgo, chartUpdateCounter, windIntensity, customWaypoints,
                    intState, kbTarget, customIdx, customT, keys, recording, records,
                    startTime, nSub, nCompute, nPlant >>

toggleRecord ==
    /\ Event("toggleRecord", << >>)
    /\ IF recording
       THEN /\ recording' = FALSE
            /\ UNCHANGED << records, startTime >>
       ELSE /\ recording' = TRUE
            /\ records' = << >>
            /\ startTime' = simTime
    /\ raised' = FALSE
    /\ UNCHANGED << simState, simTime, paused, simSpeed, currentAlgo, currentPattern,
                    currentGains, panelAlgo, chartUpdateCounter, windIntensity,
                    customWaypoints, intState, kbTarget, customIdx, customT, keys,
                    nSub, nCompute, nPlant >>

\* Trajectories.setCustomWaypoints(wps), as every waypoint handler calls it
setCustomWaypoints(wps) ==
    /\ customWaypoints' = wps
    /\ customIdx' = 0
    /\ customT' = 0
    /\ raised' = FALSE
    /\ UNCHANGED << simState, simTime, paused, simSpeed, currentAlgo, currentPattern,
                    currentGains, panelAlgo, chartUpdateCounter, windIntensity,
                    intState, kbTarget, keys, recording, records, startTime,
                    nSub, nCompute, nPlant >>

\* addCustomWaypoint(): raw is what parseFloat read from the three fields
addCustomWaypoint(raw) ==
    /\ Event("addCustomWaypoint", << >>)
    /\ LET xVal == OrZero(raw[1])
           yVal == IF OrZero(raw[2]) = 0 THEN 3000 ELSE raw[2]
           zVal == OrZero(raw[3])
       IN  setCustomWaypoints(Append(customWaypoints, << xVal, yVal, zVal >>))

\* the clear button; on an empty list it changes nothing (the walker is at
\* its start whenever the list is empty), so only the other case is explored
clearWaypoints ==
    /\ Undo("clearWaypoints")
    /\ customWaypoints # << >>
    /\ setCustomWaypoints(<< >>)

\* the remove button of waypoint i: customWaypoints.splice(i, 1)
removeWaypoint(i) ==
    /\ Undo("removeWaypoint")
    /\ i \in 1..Len(customWaypoints)
    /\ setCustomWaypoints([k \in 1..(Len(customWaypoints) - 1) |->
                              IF k < i THEN customWaypoints[k] ELSE customWaypoints[k + 1]])

\* Keyboard: the keydown, keyup and blur listeners
keydown(code) ==
    /\ Event("keydown", << >>)
    /\ code \notin keys
    /\ keys' = keys \cup {code}
    /\ raised' = FALSE
    /\ UNCHANGED << simState, simTime, paused, simSpeed, currentAlgo, currentPattern,
                    currentGains, panelAlgo, chartUpdateCounter, windIntensity,
                    customWaypoints, intState, kbTarget, customIdx, customT,
                    recording, records, startTime, nSub, nCompute, nPlant >>

keyup(code) ==
    /\ Undo("keyup")
    /\ code \in keys
    /\ keys' = keys \ {code}
    /\ raised' = FALSE
    /\ UNCHANGED << simState, simTime, paused, simSpeed, currentAlgo, currentPattern,
                    currentGains, panelAlgo, chartUpdateCounter, windIntensity,
                    customWaypoints, intState, kbTarget, customIdx, customT,
                    recording, records, startTime, nSub, nCompute, nPlant >>

blur ==
    /\ Undo("blur")
    /\ keys # {}
    /\ keys' = {}
    /\ raised' = FALSE
    /\ UNCHANGED << simState, simTime, paused, simSpeed, currentAlgo, currentPattern,
                    currentGains, panelAlgo, chartUpdateCounter, windIntensity,
                    customWaypoints, intState, kbTarget, customIdx, customT,
                    recording, records, startTime, nSub, nCompute, nPlant >>

\* what the controls of the page deliver
WindVals == {0, 3000}
SpeedVals == {5, 10}
GainInputs == { <<"Kd_att", 0>>, <<"Ki_xy", 2000>>, <<"Kp_att", 30000>>,
                <<"phi_xy", 2000>>, <<"eta_att", 15000>>,
                <<"alpha1_att", 25000>>, <<"lambda_z", 100>>,
                <<"N", 3>>, <<"N", 30>>, <<"R", 5000>> }
KeyCodes == {"KeyW", "Space"}
WpInputs == { << NAN, NAN, NAN >>, << 2000, 1000, 1000 >> }
\* the ids of the catalogue, and one id outside it for each selector
AlgoInputs == AlgoIds \cup {"LQR"}
PatternIds == PatternKeys \cup {"KEYBOARD", "CUSTOM"}
PatternInputs == PatternIds \cup {"SPIRAL"}

UIEvent ==
    \/ \E id \in AlgoInputs : algoChange(id)
    \/ \E id \in PatternInputs : patternChange(id)
    \/ \E v \in WindVals : windInput(v)
    \/ \E v \in SpeedVals : speedInput(v)
    \/ \E d \in GainInputs : gainInput(d[1], d[2])
    \/ resetSim
    \/ togglePause
    \/ toggleRecord
    \/ \E raw \in WpInputs : addCustomWaypoint(raw)
    \/ clearWaypoints
    \/ \E i \in 1..Len(customWaypoints) : removeWaypoint(i)
    \/ \E c \in KeyCodes : keydown(c)
    \/ \E c \in KeyCodes : keyup(c)
    \/ blur

Next == loop \/ UIEvent

Spec == Init /\ [][Next]_vars

\* ------------------------------------------------------------------------
\*  Configured sessions
\* ------------------------------------------------------------------------
\* A session starts where the user, with the run paused, has pressed reset
\* and then chosen the settings: a catalogue algorithm (with its default
\* gains), a pattern, the keys held down (KEYBOARD) or the waypoints placed
\* (CUSTOM), the speed factor and whether the logger records.  From there
\* the frames run with the settings left alone.
SessionAlgos == {"PID", "MPC"}
SessionKeys == { {}, {"KeyW"}, {"KeyE"} }
SessionWps == { << << 0, 3000, 0 >>, << 100, 3000, 0 >> >>,
                << << 2000, 1000, 1000 >>, << 2000, 1000, 1000 >>, << 2000, 1100, 1000 >> >> }

SessionConfigs ==
    { [algo |-> a, pattern |-> pk[1], keys |-> pk[2], wps |-> pk[3],
       speed |-> v, recording |-> rec] :
        a \in SessionAlgos,
        pk \in ({ << id, {}, << >> >> : id \in PatternKeys }
                    \cup { << "KEYBOARD", k, << >> >> : k \in SessionKeys }
                    \cup { << "CUSTOM", {}, wl >> : wl \in SessionWps }),
        v \in SpeedVals, rec \in BOOLEAN }

\* the page with the settings c chosen after a reset
SessionOf(c) ==
        /\ simState = createState
        /\ simTime = 0
        /\ paused = FALSE
        /\ simSpeed = c.speed
        /\ currentAlgo = c.algo
        /\ currentPattern = c.pattern
        /\ currentGains = getDefaultGains(c.algo)
        /\ panelAlgo = c.algo
        /\ chartUpdateCounter = 0
        /\ windIntensity = 0
        /\ customWaypoints = c.wps
        /\ intState = resetInternal
        /\ kbTarget = resetKeyboard
        /\ customIdx = 0
        /\ customT = 0
        /\ keys = c.keys
        /\ recording = c.recording
        /\ records = << >>
        /\ startTime = 0
        /\ frameLog = << >>
        /\ raised = FALSE
        /\ nSub = 0
        /\ nCompute = 0
        /\ nPlant = 0
        /\ nEvents = 0
        /\ nResets = 0
        /\ lastOp = "init"
        /\ resetOf = << >>
        /\ probe = NoProbe

InitSession == \E c \in SessionConfigs : SessionOf(c)

NextSession == loop

SpecSession == InitSession /\ [][NextSession]_vars

\* ------------------------------------------------------------------------
\*  Episodes
\* ------------------------------------------------------------------------
\* Sessions of each of the four algorithms on a moving reference (the
\* circle, the keyboard target with a key held, the waypoint walker) with
\* the logger recording, in which the user may press the reset button.
EpisodeWps == << << 0, 3000, 0 >>, << 100, 3000, 0 >> >>

EpisodeConfigs ==
    { [algo |-> a, pattern |-> pk[1], keys |-> pk[2], wps |-> pk[3],
       speed |-> v, recording |-> TRUE] :
        a \in AlgoIds,
        pk \in { << "CIRCLE", {}, << >> >>, << "KEYBOARD", {"KeyE"}, << >> >>,
                 << "CUSTOM", {}, EpisodeWps >> },
        v \in SpeedVals }

InitEpisode == \E c \in EpisodeConfigs : SessionOf(c)

NextEpisode == loop \/ resetSim

SpecEpisode == InitEpisode /\ [][NextEpisode]_vars

\* ------------------------------------------------------------------------
\*  Direct calls of the libraries
\* ------------------------------------------------------------------------
\* the state of the reference generator
Generator ==
    [kb |-> kbTarget, idx |-> customIdx, ct |-> customT, wps |-> customWaypoints]

\* a lookahead closure that walks the waypoint list when the key is CUSTOM
trajectoryFnWalks(gen, patternKey, t) ==
    IF patternKey = "CUSTOM"
    THEN Let(evaluateCustom(gen.wps, gen.idx, gen.ct), LAMBDA r :
             [gen |-> [gen EXCEPT !.idx = r.idx, !.ct = r.ct], out |-> position(r.target)])
    ELSE [gen |-> gen, out |-> getTrajectoryFn(patternKey, t)]

\* trajectoryFn(t) for trajectoryFn = getTrajectoryFn(patternKey): what the
\* call returns and the generator's state after it (the closure reads
\* patterns[patternKey] and nothing else)
trajectoryFnCall(gen, patternKey, t) ==
    [gen |-> gen, out |-> getTrajectoryFn(patternKey, t)]

\* the arguments of the calls
LibTimes == {0, 1500, 12000}
LibSamples == {1, 2, 3, 4}
LibDurations == {3500, 12000, 40000}
LibInputs == { << T, a, b, c >> : T \in {0, 4905, 12000}, a \in {-200, 0, 200},
                                  b \in {-200, 0, 200}, c \in {-50, 0, 50} }
LibWps == { << >>, << << 1000, 2000, 0 >> >>,
            << << 0, 3000, 0 >>, << 100, 3000, 0 >> >>,
            << << 2000, 1000, 1000 >>, << 2000, 1000, 1000 >>, << 2000, 1100, 1000 >> >> }

\* plant states for the controller calls: on the ground at rest, on the
\* sliding surfaces of the three axes with nonzero errors (velocity error
\* = -lambda * position error for the hover setpoint), at the hover
\* setpoint at rest, and yawed, rolled and moving
LibPlants ==
    { createState,
      [createState EXCEPT !.x = -400, !.y = 2800, !.z = 400,
                          !.vx = 1000, !.vy = 600, !.vz = -1000],
      [createState EXCEPT !.y = 3000],
      [createState EXCEPT !.y = 1000, !.vx = 500, !.phi = 100, !.psi = 300, !.r = 200] }
LibYaws == {0, 500}
LibTargets == { Setpoint(0, 3000, 0, 0, 0, 0, yaw) : yaw \in LibYaws }

\* the desired accelerations << ax_des, ay_des, az_des >> a compute derives
\* in its outer loop (PID and SMC)
desiredAccel(algo, int, state, target, G) ==
    Let(errors(state, target), LAMBDA e :
        IF algo = "PID"
        THEN Let(<< pidIntegral(int.iEx, e.ex, G), pidIntegral(int.iEy, e.ey, G),
                    pidIntegral(int.iEz, e.ez, G) >>, LAMBDA i : pidOuter(G, e, i))
        ELSE Let(surfaces(G, e), LAMBDA sv : smcOuter(G, e, sv)))

LibCalls ==
    { [fn |-> "compute", args |-> << a, s, tg >>, out |-> << >>] :
          a \in AlgoIds, s \in LibPlants, tg \in LibTargets }
      \cup { [fn |-> "desiredAccel", args |-> << a, s, tg >>, out |-> << >>] :
                a \in {"PID", "SMC"}, s \in LibPlants, tg \in LibTargets }
      \cup
    { [fn |-> "trajectoryFn", args |-> << pk, t >>, out |-> << >>] :
          pk \in PatternInputs, t \in LibTimes }
      \cup { [fn |-> "generatePreview", args |-> << pk, n, D >>, out |-> << >>] :
                pk \in PatternKeys, n \in LibSamples, D \in LibDurations }
      \cup { [fn |-> "allocateMotors", args |-> u, out |-> << >>] : u \in LibInputs }
      \cup { [fn |-> "evaluateCustom", args |-> << >>, out |-> << >>] }

\* waypoints are placed where the call reads the waypoint walker
InitLib ==
    \E call \in LibCalls : \E wl \in LibWps :
        /\ (call.fn \in {"generatePreview", "allocateMotors", "compute", "desiredAccel"}
               \/ (call.fn = "trajectoryFn" /\ call.args[1] # "CUSTOM")) => wl = << >>
        /\ BootWith(wl)
        /\ probe = call

LibKeeps ==
    UNCHANGED << simState, simTime, paused, simSpeed, currentAlgo, currentPattern,
                 currentGains, panelAlgo, chartUpdateCounter, windIntensity, intState,
                 keys, recording, records, startTime, frameLog, raised, nSub, nCompute,
                 nPlant, nEvents, nResets, lastOp, resetOf >>

callTrajectoryFn ==
    /\ probe.fn = "trajectoryFn"
    /\ Len(probe.out) < 2
    /\ \E r \in {trajectoryFnCall(Generator, probe.args[1], probe.args[2])} :
          /\ kbTarget' = r.gen.kb
          /\ customIdx' = r.gen.idx
          /\ customT' = r.gen.ct
          /\ customWaypoints' = r.gen.wps
          /\ probe' = [probe EXCEPT !.out = Append(@, r.out)]
    /\ LibKeeps

callGeneratePreview ==
    /\ probe.fn = "generatePreview"
    /\ probe.out = << >>
    /\ probe' = [probe EXCEPT !.out =
                    << generatePreview(probe.args[1], probe.args[2], probe.args[3]) >>]
    /\ UNCHANGED << kbTarget, customIdx, customT, customWaypoints >>
    /\ LibKeeps

callAllocateMotors ==
    /\ probe.fn = "allocateMotors"
    /\ probe.out = << >>
    /\ probe' = [probe EXCEPT !.out =
                    << allocateMotors(probe.args[1], probe.args[2],
                                      probe.args[3], probe.args[4]) >>]
    /\ UNCHANGED << kbTarget, customIdx, customT, customWaypoints >>
    /\ LibKeeps

callEvaluateCustom ==
    /\ probe.fn = "evaluateCustom"
    /\ \E r \in {evaluateCustom(customWaypoints, customIdx, customT)} :
          /\ customIdx' = r.idx
          /\ customT' = r.ct
          /\ probe' = [probe EXCEPT !.out = << r.target >>]
    /\ UNCHANGED << kbTarget, customWaypoints >>
    /\ LibKeeps

\* Controllers.compute(algo, state, target, gains, DT, trajFn, time) with
\* the default gains of algo, the hover lookahead and time 0: it returns the
\* input vector and writes the controller's internal state
callCompute ==
    /\ probe.fn = "compute"
    /\ probe.out = << >>
    /\ \E r \in {compute(probe.args[1], intState, probe.args[2], probe.args[3],
                          getDefaultGains(probe.args[1]), "HOVER", 0)} :
          /\ intState' = r.int
          /\ probe' = [probe EXCEPT !.out = << r.u >>]
    /\ UNCHANGED << simState, simTime, paused, simSpeed, currentAlgo, currentPattern,
                    currentGains, panelAlgo, chartUpdateCounter, windIntensity,
                    customWaypoints, kbTarget, customIdx, customT,
                    keys, recording, records, startTime, frameLog, raised, nSub,
                    nCompute, nPlant, nEvents, nResets, lastOp, resetOf >>

\* the outer loop of computePID or computeSMC alone
callDesiredAccel ==
    /\ probe.fn = "desiredAccel"
    /\ probe.out = << >>
    /\ probe' = [probe EXCEPT !.out =
                    << desiredAccel(probe.args[1], intState, probe.args[2],
                                    probe.args[3], getDefaultGains(probe.args[1])) >>]
    /\ UNCHANGED << kbTarget, customIdx, customT, customWaypoints >>
    /\ LibKeeps

NextLib ==
    \/ callCompute
    \/ callDesiredAccel
    \/ callTrajectoryFn
    \/ callGeneratePreview
    \/ callAllocateMotors
    \/ callEvaluateCustom

\* the frame loop calls the walker again and again
SpecLib == InitLib /\ [][NextLib]_vars /\ WF_vars(callEvaluateCustom)

\* ------------------------------------------------------------------------
\*  Properties
\* ------------------------------------------------------------------------
\* 4 * m * g, the upper limit of the thrust clamp
thrustMax == 4 * ((P_m * P_g) \div SCALE)

\* C1: in every reachable plant state y >= 0, and a step whose integration
\* result has y < 0 ends with y = 0, vy >= 0 and the attitude and angular
\* rates as integrated.
C1_AboveGround ==
    /\ Ge(simState.y, 0)
    /\ \A i \in 1..Len(frameLog) :
          frameLog[i].u # << >> =>
             \E raw \in {integrate(frameLog[i].pre, frameLog[i].u,
                                   windEnv(windIntensity, frameLog[i].t))} :
             \E post \in {IF i < Len(frameLog) THEN frameLog[i + 1].pre ELSE simState} :
                Lt(raw.y, 0) =>
                   /\ post.y = 0
                   /\ Ge(post.vy, 0)
                   /\ << post.phi, post.theta, post.psi, post.p, post.q, post.r >>
                         = << raw.phi, raw.theta, raw.psi, raw.p, raw.q, raw.r >>

\* C2: the thrust every compute returns lies in [0, 4 m g] and the desired
\* roll and pitch it derives lie in [-0.6, 0.6] rad.
C2_CommandLimits ==
    \A i \in 1..Len(frameLog) :
       frameLog[i].u # << >> =>
          /\ Ge(frameLog[i].u[1], 0)
          /\ Le(frameLog[i].u[1], thrustMax)
          /\ Le(MathAbs(frameLog[i].phi_des), 600)
          /\ Le(MathAbs(frameLog[i].theta_des), 600)

\* C3: in every reachable plant state each of the four stored motor speeds
\* lies in [0, wMax].
C3_MotorLimits ==
    \A i \in 1..4 : Ge(simState.motors[i], 0) /\ Le(simState.motors[i], P_wMax)

\* C4: in every substep the setpoint is queried at the already advanced
\* time, the selected controller computes the input from that setpoint and
\* the pre-step plant state, and the plant is stepped with exactly that
\* input before the next substep (or the end of the frame) sees the state.
C4_SubstepOrder ==
    \A i \in 1..Len(frameLog) :
       \E e \in {frameLog[i]} :
          /\ e.t = simTime - Len(frameLog) + i
          /\ currentPattern \in PatternKeys => e.target = evaluate(currentPattern, TimeFx(e.t))
          /\ e.u = compute(currentAlgo, e.intPre, e.pre, e.target, currentGains,
                           currentPattern, e.t).u
          /\ Len(e.u) = 4
          /\ (IF i < Len(frameLog) THEN frameLog[i + 1].pre ELSE simState)
                = step(e.pre, e.u, windEnv(windIntensity, e.t))

\* C5: simTime is dt times the number of substeps since the last reset,
\* with exactly one controller compute and one plant step per substep.
C5_TimeCountsSubsteps == simTime = nSub /\ nCompute = nSub /\ nPlant = nSub

\* C6: immediately after a controller reset the three PID integrators, the
\* six super-twisting accumulators, the stored sliding surfaces and the
\* published control output are all zero and the published MPC horizon is
\* empty, whatever the controller state was before.
C6_ResetZeroes ==
    resetOf # << >> =>
       /\ << intState.iEx, intState.iEy, intState.iEz >> = << 0, 0, 0 >>
       /\ << intState.v_x, intState.v_y, intState.v_z,
             intState.v_phi, intState.v_theta, intState.v_psi >> = << 0, 0, 0, 0, 0, 0 >>
       /\ << intState.s_x, intState.s_y, intState.s_z,
             intState.s_phi, intState.s_theta >> = << 0, 0, 0, 0, 0 >>
       /\ << intState.T, intState.tau_phi, intState.tau_theta, intState.tau_psi >>
             = << 0, 0, 0, 0 >>
       /\ intState.mpcPrediction = << >>

\* a reset has just replaced a controller state in which the MPC had
\* published a horizon and a thrust
C6_ResetAfterMPC ==
    /\ resetOf # << >>
    /\ resetOf[1].mpcPrediction # << >>
    /\ resetOf[1].T # 0

\* C7: every change of the selected algorithm and every episode reset comes
\* with a controller reset, so the next compute starts from a zeroed
\* controller state.
C7_ResetOnSwitch ==
    [][(currentAlgo' # currentAlgo \/ lastOp' = "resetSim")
          => (resetOf' # << >> /\ intState' = zeroIntState)]_vars

\* C8: a frame callback that runs while paused issues no substep and leaves
\* simTime, the plant state, the controller state, the keyboard target and
\* the waypoint walker unchanged; substeps are issued only when not paused.
C8_PausedFramesIdle ==
    [][/\ (paused /\ lastOp' = "loop")
            => UNCHANGED << simTime, simState, intState, kbTarget, customIdx, customT,
                            nSub, nCompute, nPlant >>
       /\ nSub' > nSub => ~paused]_vars

\* a frame callback has run while paused, in the middle of an episode
C8_PausedFrameSeen ==
    /\ paused
    /\ lastOp = "loop"
    /\ simTime > 0
    /\ intState # zeroIntState

\* C9: a request for an id outside the catalogue is rejected: the selected
\* algorithm and the selected pattern are always catalogue ids.
C9_UnknownIdRejected == currentAlgo \in AlgoIds /\ currentPattern \in PatternIds

\* C10: every tick completes without raising and with a four-component
\* input vector from the controller.
C10_TickTotal ==
    lastOp = "loop" =>
       /\ ~raised
       /\ \A i \in 1..Len(frameLog) : Len(frameLog[i].u) = 4

\* the world at the start of a session
SessionStart ==
    [simState |-> createState, simTime |-> 0, intState |-> resetInternal,
     kbTarget |-> resetKeyboard, customIdx |-> 0, customT |-> 0,
     frameLog |-> << >>, raised |-> FALSE, nSub |-> 0, nCompute |-> 0, nPlant |-> 0]

\* the world after k frames of spf substeps each, with the logger recording
\* or not, the chart counter at counter before the first of them
RECURSIVE framesRun(_, _, _, _, _, _)
framesRun(w, cfg, spf, rec, counter, k) ==
    IF k = 0 \/ w.raised THEN w
    ELSE Let(runSteps([w EXCEPT !.frameLog = << >>], cfg, spf), LAMBDA a :
         Let(IF a.raised THEN a
             ELSE afterSteps(a, cfg, counter + 1 >= CHART_INTERVAL, rec), LAMBDA b :
             framesRun(b, cfg, spf, rec, chartCounter(counter), k - 1)))

\* the setpoint of the last substep and the plant state of a world
outcomeOf(log, plant) == << log[Len(log)].target, plant >>

\* C11: two runs from the same initial state with the same algorithm, gains,
\* pattern, held keys, waypoints and wind have the same setpoint and the
\* same plant state after the same number of substeps, whatever the speed
\* factor groups into a frame and whether the logger records.
C11_Reproducible ==
    (lastOp = "loop" /\ ~raised) =>
       \A v \in SpeedVals : \A rec \in BOOLEAN :
          simTime % stepsPerFrame(v) = 0 =>
             \E other \in {framesRun(SessionStart, Config, stepsPerFrame(v), rec, 0,
                                      simTime \div stepsPerFrame(v))} :
                outcomeOf(frameLog, simState) = outcomeOf(other.frameLog, other.simState)

\* C12: a call of the closure getTrajectoryFn(pattern) returned, at any
\* time t and however often, changes nothing of the reference generator
\* (keyboard target, walker index and segment time, waypoints), and calls
\* with the same t return the same setpoint.
C12_LookaheadIsPure ==
    [][probe'.fn = "trajectoryFn" =>
          /\ UNCHANGED << kbTarget, customIdx, customT, customWaypoints >>
          /\ \A i \in 1..Len(probe'.out) : probe'.out[i] = probe'.out[1]]_vars

\* the closure for CUSTOM has been called twice with waypoints to walk
C12_CalledTwice ==
    /\ probe.fn = "trajectoryFn"
    /\ probe.args[1] = "CUSTOM"
    /\ Len(customWaypoints) >= 2
    /\ Len(probe.out) = 2

\* C13: after every MPC compute the published prediction list has exactly
\* N + 1 entries (it is rebuilt on each tick, it never grows) and its first
\* entry equals the plant position the compute was given.
C13_PredictionList ==
    (currentAlgo = "MPC" /\ lastOp = "loop" /\ frameLog # << >>) =>
       \E e \in {frameLog[Len(frameLog)]} :
          /\ Len(intState.mpcPrediction) = currentGains.N + 1
          /\ Eq(intState.mpcPrediction[1].x, e.pre.x)
          /\ Eq(intState.mpcPrediction[1].y, e.pre.y)
          /\ Eq(intState.mpcPrediction[1].z, e.pre.z)

\* C14: after every PID compute each of the three position-error
\* integrators lies in [-iMax, +iMax].
C14_IntegratorsBounded ==
    (currentAlgo = "PID" /\ lastOp = "loop") =>
       /\ Le(MathAbs(intState.iEx), currentGains.iMax)
       /\ Le(MathAbs(intState.iEy), currentGains.iMax)
       /\ Le(MathAbs(intState.iEz), currentGains.iMax)

\* C15: for every analytic pattern, sample count n >= 1 and duration D,
\* generatePreview(pattern, n, D) has the points i = 0..n and its i-th point
\* is the position of evaluate(pattern, (i / n) * D).
C15_PreviewMatchesEvaluate ==
    (probe.fn = "generatePreview" /\ probe.out # << >>) =>
       \E pts \in {probe.out[1]} :
          /\ Len(pts) = probe.args[2] + 1
          /\ \A i \in 0..probe.args[2] :
                \E r \in {evaluate(probe.args[1],
                                    Mul(Div(i * SCALE, probe.args[2] * SCALE), probe.args[3]))} :
                   pts[i + 1] = << r.x, r.y, r.z >>

\* a preview of a moving pattern with several samples has been generated
C15_PreviewMade ==
    /\ probe.fn = "generatePreview"
    /\ probe.args[1] = "FIGURE8"
    /\ probe.args[2] = 4
    /\ probe.out # << >>
    /\ probe.out[1][1] # probe.out[1][4]

\* none of the four squared speeds of allocateMotors(u) is clamped
unclamped(u) ==
    \A i \in 1..4 : \E sq \in {allocSq(u[1], u[2], u[3], u[4])[i]} :
        Ge(sq, 0) /\ Le(sq, wMaxSq)

\* what the resolution of the stored speeds (whole rad/s) and of the squared
\* speeds (W2UNIT) can contribute to each mixed component
mixResolution ==
    mixScale([k \in 1..4 |-> 4 * (2 * P_wMax + 1 + 2 * W2UNIT)])

\* C16: allocateMotors followed by the forward X-configuration mixing gives
\* back the input (T, tau_phi, tau_theta, tau_psi), to the resolution of the
\* stored speeds, for every input for which no squared speed is clamped.
C16_MixRoundTrip ==
    (probe.fn = "allocateMotors" /\ probe.out # << >> /\ unclamped(probe.args)) =>
       \E back \in {forwardMix(probe.out[1])} :
          \A k \in 1..4 : Abs(back[k] - probe.args[k]) <= mixResolution[k] + 1

\* an input with thrust and three different torques has been allocated
\* without clamping
C16_Allocated ==
    /\ probe.fn = "allocateMotors"
    /\ probe.out # << >>
    /\ probe.args = << 4905, 200, -200, 50 >>
    /\ unclamped(probe.args)

\* the keyboard target integrated once per substep, n substeps long, with
\* the keys held throughout
RECURSIVE integrateKb(_, _, _)
integrateKb(kb, held, n) ==
    IF n = 0 THEN kb ELSE integrateKb(kbAdvance(kb, kbVelOf(held)), held, n - 1)

\* C17: under KEYBOARD the target is integrated once per physics substep:
\* with one axis key held it has moved by 3 dt (1.5 dt for yaw) per substep
\* along that axis, and with no key held it has not moved.
C17_KeyboardRate ==
    currentPattern = "KEYBOARD" => kbTarget = integrateKb(resetKeyboard, keys, nSub)

\* C19: in every substep the lookahead closure obtained for the selected
\* pattern, evaluated at the substep's simulation time, returns the position
\* of the setpoint the controller is given in that substep.
C19_HorizonFollowsPattern ==
    \A i \in 1..Len(frameLog) :
       getTrajectoryFn(currentPattern, TimeFx(frameLog[i].t))
          = position(frameLog[i].target)

\* the attitude gains of the running controller with the yaw gains of the
\* PID controller
pidAttitudeGains ==
    [Kp_att |-> currentGains.Kp_att, Kd_att |-> currentGains.Kd_att,
     Kp_yaw |-> defaultGains("PID").Kp_yaw, Kd_yaw |-> defaultGains("PID").Kd_yaw]

\* C20: the three torques an MPC compute returns are those of the PID inner
\* loop for the same plant state, desired roll and pitch, setpoint yaw and
\* attitude gains.
C20_InnerLoopIsPID ==
    currentAlgo = "MPC" =>
       \A i \in 1..Len(frameLog) :
          \E e \in {frameLog[i]} :
             e.u = pidInner(e.intPre, e.pre, e.target, pidAttitudeGains,
                            errors(e.pre, e.target), << 0, 0, 0 >>,
                            [T |-> e.u[1], phi_des |-> e.phi_des,
                             theta_des |-> e.theta_des]).u

\* the waypoint a walker at segment idx leaves, and the one it heads for
segStart(idx) == customWaypoints[(idx % Len(customWaypoints)) + 1]
segEnd(idx) == customWaypoints[((idx + 1) % Len(customWaypoints)) + 1]

\* the duration of segment idx: its length over the traversal speed
segDuration(idx) ==
    segTimeOf(Sub(segEnd(idx)[1], segStart(idx)[1]),
              Sub(segEnd(idx)[2], segStart(idx)[2]),
              Sub(segEnd(idx)[3], segStart(idx)[3]))

walking == probe.fn = "evaluateCustom" /\ Len(customWaypoints) >= 2

\* one evaluateCustom call on a list of two or more waypoints
walkerStep ==
    walking =>
       /\ customIdx \in 0..(Len(customWaypoints) - 1)
       /\ customIdx' \in 0..(Len(customWaypoints) - 1)
       /\ IF Ge(Add(customT, CUSTOM_TICK), segDuration(customIdx))
          THEN /\ customIdx' = (customIdx + 1) % Len(customWaypoints)
               /\ customT' = 0
               /\ << probe'.out[1].x, probe'.out[1].y, probe'.out[1].z >>
                     = segEnd(customIdx)
          ELSE /\ customIdx' = customIdx
               /\ customT' = Add(customT, CUSTOM_TICK)

emitted(k) ==
    /\ walking /\ k <= Len(customWaypoints)
    /\ probe.out # << >>
    /\ << probe.out[1].x, probe.out[1].y, probe.out[1].z >> = customWaypoints[k]

\* C18: on a list of n >= 2 waypoints the segment index stays in [0, n),
\* moves only by +1 modulo n and only on the call where the segment time
\* reaches the segment's duration; that call resets the segment time and
\* emits the segment's end waypoint; every waypoint is emitted again and
\* again, coincident consecutive waypoints included.
C18_CyclicTraversal ==
    /\ [][walkerStep]_vars
    /\ \A k \in 1..3 :
          (walking /\ k <= Len(customWaypoints)) ~> emitted(k)

\* the walker is back on the first segment of the list with a coincident
\* pair, having emitted the first waypoint at the end of the closing segment
C18_WrappedAround ==
    /\ Len(customWaypoints) = 3
    /\ customWaypoints[1] = customWaypoints[2]
    /\ customIdx = 0 /\ customT = 0
    /\ emitted(1)

\* the yaw torque the same compute returns when the setpoint's yaw is 0
yawTorqueAtZeroYaw ==
    compute(probe.args[1], resetInternal, probe.args[2],
            [probe.args[3] EXCEPT !.yaw = 0],
            getDefaultGains(probe.args[1]), "HOVER", 0).u[4]

\* C21: every algorithm takes the desired yaw from the setpoint: for a
\* setpoint with a nonzero yaw the yaw torque differs from the one returned
\* for the setpoint that differs from it only in having yaw 0.
C21_YawFromSetpoint ==
    (probe.fn = "compute" /\ probe.out # << >> /\ probe.args[3].yaw # 0)
        => probe.out[1][4] # yawTorqueAtZeroYaw

\* the translational axes 1 = x, 2 = y, 3 = z of an SMC outer-loop call:
\* velocity error, sliding surface and boundary layer of the axis
smcCall == probe.fn = "desiredAccel" /\ probe.args[1] = "SMC" /\ probe.out # << >>
smcErrors == errors(probe.args[2], probe.args[3])
smcVelErr(k) == IF k = 1 THEN smcErrors.evx ELSE IF k = 2 THEN smcErrors.evy ELSE smcErrors.evz
smcPosErr(k) == IF k = 1 THEN smcErrors.ex ELSE IF k = 2 THEN smcErrors.ey ELSE smcErrors.ez
smcLambda(k) == IF k = 2 THEN defaultGains("SMC").lambda_z ELSE defaultGains("SMC").lambda_xy
smcLayer(k) == IF k = 2 THEN defaultGains("SMC").phi_z ELSE defaultGains("SMC").phi_xy
onSurface(k) == smcLayer(k) = 0 /\ Add(smcVelErr(k), Mul(smcLambda(k), smcPosErr(k))) = 0

\* C22 (as stated): with boundary layer 0, an axis whose sliding surface is
\* exactly 0 gets the desired acceleration 0.
C22_ZeroOnSurface ==
    smcCall => \A k \in 1..3 : onSurface(k) => probe.out[1][k] = 0

\* C22 (amended): with boundary layer 0, on an axis whose sliding surface is
\* exactly 0 the switching term vanishes and the desired acceleration is
\* lambda * (v_ref - v), which is 0 only when the velocity error is 0.
C22_EquivalentControlOnSurface ==
    smcCall => \A k \in 1..3 :
                  onSurface(k) => probe.out[1][k] = Mul(smcLambda(k), smcVelErr(k))

\* the outer loop was called on the three surfaces with nonzero errors
C22_OnSurfaceMoving ==
    smcCall /\ \A k \in 1..3 : onSurface(k) /\ smcVelErr(k) # 0 /\ smcPosErr(k) # 0

\* a PID outer-loop call from the reset controller state: the errors and
\* the integrals after the call's update (0 + e * dt, clamped to iMax)
pidCall == probe.fn = "desiredAccel" /\ probe.args[1] = "PID" /\ probe.out # << >>
pidErrors == errors(probe.args[2], probe.args[3])
pidInt(e) == clamp(DivI(e, DT_HZ), Neg(defaultGains("PID").iMax), defaultGains("PID").iMax)

\* Kp * e + Ki * i + Kd * ev
pidAxis(Kp, Ki, Kd, e, ev) == Add(Add(Mul(Kp, e), Mul(Ki, pidInt(e))), Mul(Kd, ev))

\* C24 (as stated): the altitude (y) axis is computed with the gains
\* Kp_xy, Ki_xy, Kd_xy and the horizontal axes x and z with Kp_z, Ki_z, Kd_z.
C24_CrossWired ==
    pidCall =>
       \E G \in {defaultGains("PID")} : \E e \in {pidErrors} :
          probe.out[1] = << pidAxis(G.Kp_z, G.Ki_z, G.Kd_z, e.ex, e.evx),
                            pidAxis(G.Kp_xy, G.Ki_xy, G.Kd_xy, e.ey, e.evy),
                            pidAxis(G.Kp_z, G.Ki_z, G.Kd_z, e.ez, e.evz) >>

\* C24 (amended): the altitude (y) axis is computed with Kp_z, Ki_z, Kd_z
\* and the horizontal axes x and z with Kp_xy, Ki_xy, Kd_xy.
C24_AltitudeUsesZFamily ==
    pidCall =>
       \E G \in {defaultGains("PID")} : \E e \in {pidErrors} :
          probe.out[1] = << pidAxis(G.Kp_xy, G.Ki_xy, G.Kd_xy, e.ex, e.evx),
                            pidAxis(G.Kp_z, G.Ki_z, G.Kd_z, e.ey, e.evy),
                            pidAxis(G.Kp_xy, G.Ki_xy, G.Kd_xy, e.ez, e.evz) >>

\* the outer loop was called with errors on all three axes
C24_ErrorsOnAllAxes ==
    pidCall /\ pidErrors.ex # 0 /\ pidErrors.ey # 0 /\ pidErrors.ez # 0

\* the six super-twisting accumulators of an internal state
accumulators(int) ==
    << int.v_x, int.v_y, int.v_z, int.v_phi, int.v_theta, int.v_psi >>

\* the internal state the i-th substep of the frame left behind
intPost(i) == IF i < Len(frameLog) THEN frameLog[i + 1].intPre ELSE intState

\* the six sliding surfaces of the i-th substep: position, then attitude
stsSurfaces(i) ==
    Let(frameLog[i], LAMBDA e :
        surfaces(currentGains, errors(e.pre, e.target))
           \o attSurfaces(e.pre, currentGains,
                          [phi_des |-> e.phi_des, theta_des |-> e.theta_des]))

\* the alpha2 gain of each of the six axes
stsAlpha2 ==
    << currentGains.alpha2_xy, currentGains.alpha2_z, currentGains.alpha2_xy,
       currentGains.alpha2_att, currentGains.alpha2_att, currentGains.alpha2_att >>

\* v - alpha2 * sign(s) * dt
accumStep(v, alpha2, s) ==
    IF Gt(s, 0) THEN Add(v, DivI(Neg(alpha2), DT_HZ))
    ELSE IF Lt(s, 0) THEN Add(v, DivI(alpha2, DT_HZ))
    ELSE v

\* the i-th substep moved each accumulator by -alpha2 * sign(s) * dt and
\* its thrust and torques are those of the law on the moved accumulators
stsTick(i) ==
    \E e \in {frameLog[i]}, s \in {stsSurfaces(i)}, v \in {accumulators(intPost(i))} :
       /\ \A k \in 1..6 :
             v[k] = accumStep(accumulators(e.intPre)[k], stsAlpha2[k], s[k])
       /\ e.u[1] = thrustOf(e.pre, stsLaw(currentGains.alpha1_z, s[2], v[2]))
       /\ e.u[2] = byIxx(stsLaw(currentGains.alpha1_att, s[4], v[4]))
       /\ e.u[3] = byIxx(stsLaw(currentGains.alpha1_att, s[5], v[5]))
       /\ e.u[4] = byIzz(stsLaw(currentGains.alpha1_att, s[6], v[6]))
       /\ e.phi_des = attitudeOf(e.pre, << stsLaw(currentGains.alpha1_xy, s[1], v[1]),
                                           stsLaw(currentGains.alpha1_z, s[2], v[2]),
                                           stsLaw(currentGains.alpha1_xy, s[3], v[3]) >>).phi_des

\* a step that changes an accumulator is a frame under STS or a reset, and
\* the first substep of a frame finds the accumulators as the step before
\* left them
accumulatorsKept ==
    /\ accumulators(intState') # accumulators(intState) =>
          \/ lastOp' = "loop" /\ currentAlgo = "STS"
          \/ lastOp' = "resetSim" /\ accumulators(intState') = << 0, 0, 0, 0, 0, 0 >>
    /\ frameLog' # << >> =>
          accumulators(frameLog'[1].intPre) = accumulators(intState)

\* C23: each STS compute changes each of the six accumulators by exactly
\* -alpha2 * sign(s) * dt for the sliding surface of its own axis (not at all
\* when s = 0) and computes that tick's control from the updated
\* accumulators; the accumulators keep their values from one tick to the
\* next, and only an STS compute or a reset changes them.
C23_Accumulators ==
    /\ [](currentAlgo = "STS" => \A i \in 1..Len(frameLog) : stsTick(i))
    /\ [][accumulatorsKept]_vars

\* an STS frame has moved the five accumulators of the position axes, roll
\* and pitch, in a session whose earlier frame had moved them already
C23_AccumulatorsMoved ==
    /\ currentAlgo = "STS"
    /\ lastOp = "loop"
    /\ frameLog # << >>
    /\ \A k \in 1..5 : accumulators(frameLog[1].intPre)[k] # 0
    /\ \A k \in 1..5 : accumulators(intState)[k] # accumulators(frameLog[1].intPre)[k]

\* the control output the controller object publishes
published == << intState.T, intState.tau_phi, intState.tau_theta, intState.tau_psi >>

\* C25: after every tick of one of the four algorithms the published control
\* output (T, tau_phi, tau_theta, tau_psi) is the input vector applied to the
\* plant in that tick, and from a controller reset until the next tick it is
\* (0, 0, 0, 0).
C25_PublishedIsApplied ==
    /\ (currentAlgo \in AlgoIds /\ lastOp = "loop" /\ frameLog # << >>) =>
           published = frameLog[Len(frameLog)].u
    /\ resetOf # << >> => published = << 0, 0, 0, 0 >>

\* a newly selected algorithm has run a frame and publishes a thrust
C25_ThrustPublished ==
    /\ currentAlgo \in AlgoIds \ {"PID"}
    /\ lastOp = "loop"
    /\ frameLog # << >>
    /\ Gt(published[1], 0)

\* the gain keys of an algorithm of the catalogue (none for any other id)
gainKeys(algo) == IF algo \in AlgoIds THEN DOMAIN defaultGains(algo) ELSE {}

\* a step that changes the selected algorithm leaves the gain set at the
\* defaults of the new algorithm
switchedTogether ==
    currentAlgo' # currentAlgo =>
       currentAlgo' \in AlgoIds /\ currentGains' = defaultGains(currentAlgo')

\* C26: at every controller compute the gain set passed in carries the gain
\* keys of the selected algorithm, and every change of the selected
\* algorithm loads the defaults of the new algorithm, whatever had been
\* tuned before.
C26_GainsOfSelected ==
    /\ [](frameLog # << >> => DOMAIN currentGains = gainKeys(currentAlgo))
    /\ [][switchedTogether]_vars

\* C27: in every reachable state the persistent state of the algorithms
\* that are not selected is at its reset value: the three PID integrators
\* are 0 unless PID is selected, the six super-twisting accumulators are 0
\* unless STS is selected, and the published MPC horizon is empty unless MPC
\* is selected.
C27_IdleStateAtReset ==
    /\ currentAlgo # "PID" =>
          << intState.iEx, intState.iEy, intState.iEz >> = << 0, 0, 0 >>
    /\ currentAlgo # "STS" => accumulators(intState) = << 0, 0, 0, 0, 0, 0 >>
    /\ currentAlgo # "MPC" => intState.mpcPrediction = << >>

\* the twelve scalars of the plant state
PlantScalars == {"x", "y", "z", "vx", "vy", "vz", "phi", "theta", "psi", "p", "q", "r"}

\* the numeric fields of the controller's internal state
IntScalars == DOMAIN zeroIntState \ {"mpcPrediction"}

\* what a step of the reset button does and what it leaves alone
episodeReset ==
    lastOp' = "resetSim" =>
       /\ \A f \in PlantScalars : simState'[f] = 0
       /\ simTime' = 0
       /\ \A f \in IntScalars : intState'[f] = 0
       /\ kbTarget' = [x |-> 0, y |-> 2000, z |-> 0, yaw |-> 0]
       /\ UNCHANGED << currentAlgo, currentGains, currentPattern, windIntensity,
                       simSpeed, paused, recording, customIdx, customT >>

\* C28: episode reset puts the plant state back to the initial state (all
\* twelve scalars 0), simTime to 0, the controller internal state to zeros
\* and the keyboard target to (0, 2, 0) with yaw 0, and leaves the selected
\* algorithm, the gain set, the pattern, the wind intensity, the speed
\* factor, the pause flag, the recording flag and the waypoint walker
\* (segment index and segment time) unchanged.
C28_EpisodeReset == [][episodeReset]_vars

\* the reset button was pressed with the plant off the ground, the
\* controller state moved and the walker inside a segment
C28_ResetMidSegment ==
    /\ lastOp = "resetSim"
    /\ currentPattern = "CUSTOM"
    /\ customT # 0
    /\ resetOf[1] # zeroIntState
    /\ recording

\* a step adds rows only while the logger records, and a step that starts a
\* recording leaves the record list empty
recordSteps ==
    /\ (records' # records /\ records' # << >>) => recording
    /\ (~recording /\ recording') => records' = << >>

\* C29: while recording, the timestamps of the recorded rows (simulation
\* time minus the time recording started) are non-negative and
\* non-decreasing in record order, whatever frames, pauses, episode resets
\* and pattern or algorithm changes come in between; rows are added only
\* while recording is on, and starting a recording begins from an empty
\* record list.
C29_TimestampsOrdered ==
    /\ [](recording =>
            \A i \in 1..Len(records) :
               /\ records[i].t >= 0
               /\ i > 1 => records[i - 1].t <= records[i].t)
    /\ [][recordSteps]_vars

\* ------------------------------------------------------------------------
\*  keyboard.js: the listeners under arbitrary event sequences
\* ------------------------------------------------------------------------
\* The three listeners of Keyboard.init() as functions of the key table (the
\* set of codes whose entry is true), and a page that receives up to
\* MaxKeyEvents events; probe.out keeps the events delivered so far.
MaxKeyEvents == 3

FormTags == {"INPUT", "TEXTAREA", "SELECT"}
TargetTags == FormTags \cup {"BODY"}

\* a keydown listener without the test of the event target
keydownListenerAnyTarget(ks, code, tag) == ks \cup {code}

\* the keydown listener: it returns before the assignment when the target
\* is a form element
keydownListener(ks, code, tag) == IF tag \in FormTags THEN ks ELSE ks \cup {code}

\* the keyup listener: keys[e.code] = false
keyupListener(ks, code) == ks \ {code}

\* the blur listener: every entry of the table becomes false
blurListener(ks) == {}

KeyEvent(type, code, tag) == [type |-> type, code |-> code, tag |-> tag]

InitKeyboard == Boot /\ probe = [fn |-> "Keyboard", args |-> << >>, out |-> << >>]

\* delivery of one event: the table becomes ks, the event joins the history
deliver(ev, ks) ==
    /\ probe.fn = "Keyboard"
    /\ Len(probe.out) < MaxKeyEvents
    /\ keys' = ks
    /\ probe' = [probe EXCEPT !.out = Append(@, ev)]
    /\ UNCHANGED << simState, simTime, paused, simSpeed, currentAlgo, currentPattern,
                    currentGains, panelAlgo, chartUpdateCounter, windIntensity,
                    customWaypoints, intState, kbTarget, customIdx, customT, recording,
                    records, startTime, frameLog, raised, nSub, nCompute, nPlant,
                    nEvents, nResets, lastOp, resetOf >>

onKeydown ==
    \E code \in KeyCodes, tag \in TargetTags :
       deliver(KeyEvent("keydown", code, tag), keydownListener(keys, code, tag))

onKeyup ==
    \E code \in KeyCodes, tag \in TargetTags :
       deliver(KeyEvent("keyup", code, tag), keyupListener(keys, code))

onBlur == deliver(KeyEvent("blur", "", ""), blurListener(keys))

NextKeyboard == onKeydown \/ onKeyup \/ onBlur

SpecKeyboard == InitKeyboard /\ [][NextKeyboard]_vars

\* the events delivered so far
keyHistory == probe.out

\* the position of the last blur in the history (0 when there is none)
lastBlur ==
    CHOOSE i \in 0..Len(keyHistory) :
       /\ i > 0 => keyHistory[i].type = "blur"
       /\ \A j \in (i + 1)..Len(keyHistory) : keyHistory[j].type # "blur"

\* an event the listeners accept: a keyup, or a keydown outside a form element
accepted(ev) ==
    \/ ev.type = "keyup"
    \/ ev.type = "keydown" /\ ev.tag \notin FormTags

\* the positions after the last blur of the accepted events for a code
acceptedFor(code) ==
    { i \in (lastBlur + 1)..Len(keyHistory) :
         keyHistory[i].code = code /\ accepted(keyHistory[i]) }

\* C30: for any sequence of keydown, keyup and blur events a key code is
\* recorded as pressed exactly when, among the events since the last blur,
\* the latest accepted event for that code is a keydown, where a keydown on
\* an INPUT, TEXTAREA or SELECT element is not accepted and a keyup always
\* is; right after a blur no key is pressed.
C30_PressedIffLastAcceptedIsKeydown ==
    probe.fn = "Keyboard" =>
       /\ \A code \in KeyCodes :
             code \in keys <=>
                \E i \in acceptedFor(code) :
                   /\ keyHistory[i].type = "keydown"
                   /\ \A j \in acceptedFor(code) : j <= i
       /\ (lastBlur > 0 /\ lastBlur = Len(keyHistory)) => keys = {}

\* one key went down on the page and stayed down, while the keydown of the
\* other key went to a form element and its keyup came from one
C30_FormKeydownIgnored ==
    /\ probe.fn = "Keyboard"
    /\ keys = {"KeyW"}
    /\ \E i, j, k \in 1..Len(keyHistory) :
          /\ keyHistory[i] = KeyEvent("keydown", "Space", "SELECT")
          /\ keyHistory[j] = KeyEvent("keydown", "KeyW", "BODY")
          /\ keyHistory[k] = KeyEvent("keyup", "Space", "INPUT")

====
